---- MODULE Spec2Model ----
(***************************************************************************)
(* Model of the shell_protocol crate: the datagram server (udp_server.rs), *)
(* the stream server (tcp_server.rs) and the datagram client               *)
(* (udp_client.rs).                                                        *)
(*                                                                         *)
(* Paths are sequences of components, as std::path compares them.  A       *)
(* path of the model is absolute: <<>> is "/", <<"r">> is "/r".  The ".."  *)
(* component is kept by join, parent and starts_with (std::path never      *)
(* normalises it); only the operating system resolves it, in Resolve.      *)
(*                                                                         *)
(* File data is symbolic: a byte string is a sequence of segments          *)
(* [off, len], "len bytes of the reference stream from offset off",        *)
(* kept normalised (no empty segment, adjacent segments merged).           *)
(***************************************************************************)
EXTENDS Integers, Sequences, FiniteSets, TLC

VARIABLES
    mode,       \* which binary runs: "udp" (udp_server) or "tcp" (tcp_server)
    clock,      \* wall-clock seconds (SystemTime::now)
    now,        \* udp_server main: `now`, sampled at the top of the loop
    spc,        \* udp_server main: "top" (before the sweep) or "recv" (blocked in recv_from)
    sessions,   \* udp_server main: `sessions`, client key -> ClientSession
    fs,         \* the server host's filesystem: [dirs, files]
    last,       \* the datagram handled last: [from, req, sent], and when it arrived: at
    tcp,        \* tcp_server handle_client: [pc, cwd, remaining, dest, req, sent]
    cl,         \* udp_client: the client's position in do_upload / do_download
    net         \* the datagram channel: [toServer, toClient]

vars == <<mode, clock, now, spc, sessions, fs, last, tcp, cl, net>>

----------------------------------------------------------------------------
(* Program constants *)

CHUNK_SIZE == 8192
MAX_PAYLOAD_SIZE == 65000
IDLE_LIMIT == 300
TCP_BUF == 8192

(* Bounds of the model *)

MaxCwdLen == 4      \* components of a current directory (Cd is not issued beyond it)
BigDir == 252       \* files in the crowded directory of SpecBig
MaxChunks == 2      \* the client's local files have fewer than (MaxChunks + 1) * CHUNK_SIZE bytes
MaxFileChunks == 1  \* the server's file "f" has up to MaxFileChunks * CHUNK_SIZE bytes
MaxInFlight == 2    \* datagrams on their way to the client, duplicates included
MaxOps == 2         \* transfers the datagram client runs, one after the other
MaxTicks == 2       \* the clock runs up to MaxTicks * (IDLE_LIMIT + 1) seconds

----------------------------------------------------------------------------
(* std::path *)

Root == <<"r">>
UP == ".."

Min(a, b) == IF a < b THEN a ELSE b

\* Path::join: an absolute argument replaces the base
Join(base, p) == IF p.abs THEN p.comps ELSE base \o p.comps

\* Path::starts_with: component-wise prefix, ".." is a component like any other
StartsWith(p, base) ==
    /\ Len(p) >= Len(base)
    /\ SubSeq(p, 1, Len(base)) = base

\* Path::parent: the path without its final component; None for "/"
HasParent(p) == Len(p) > 0
Parent(p) == SubSeq(p, 1, Len(p) - 1)

Rel(comps) == [abs |-> FALSE, comps |-> comps]
Abs(comps) == [abs |-> TRUE, comps |-> comps]

----------------------------------------------------------------------------
(* The operating system's view of the filesystem (no symbolic links) *)

RECURSIVE ResolveFrom(_, _, _)
\* path resolution: every prefix walked through must be a directory; ".." at "/" stays at "/"
ResolveFrom(cur, comps, dirs) ==
    IF comps = <<>> THEN [ok |-> TRUE, path |-> cur]
    ELSE IF cur \notin dirs THEN [ok |-> FALSE, path |-> <<>>]
    ELSE IF Head(comps) = UP
         THEN ResolveFrom(IF cur = <<>> THEN <<>> ELSE Parent(cur), Tail(comps), dirs)
         ELSE ResolveFrom(Append(cur, Head(comps)), Tail(comps), dirs)

Resolve(p, f) == ResolveFrom(<<>>, p, f.dirs)

\* Path::is_dir
IsDir(p, f) == Resolve(p, f).ok /\ Resolve(p, f).path \in f.dirs
IsFile(p, f) == Resolve(p, f).ok /\ Resolve(p, f).path \in DOMAIN f.files
Exists(p, f) == IsDir(p, f) \/ IsFile(p, f)

\* the directory a path denotes
Denotes(p, f) == Resolve(p, f).path

----------------------------------------------------------------------------
(* Symbolic byte strings *)

Seg(o, n) == [off |-> o, len |-> n]

RECURSIVE DataLen(_)
DataLen(d) == IF d = <<>> THEN 0 ELSE Head(d).len + DataLen(Tail(d))

\* d followed by the segment s, normalised
AppendSeg(d, s) ==
    IF s.len = 0 THEN d
    ELSE IF d # <<>> /\ d[Len(d)].off + d[Len(d)].len = s.off
         THEN [d EXCEPT ![Len(d)].len = @ + s.len]
         ELSE Append(d, s)

RECURSIVE Concat(_, _)
Concat(d, e) == IF e = <<>> THEN d ELSE Concat(AppendSeg(d, Head(e)), Tail(e))

\* (mutant) the bytes are taken from the start of d, wherever pos is
slice_from_start(d, pos, n) ==
    IF d = <<>> \/ n = 0 THEN <<>> ELSE <<Seg(Head(d).off, Min(n, Head(d).len))>>


RECURSIVE Slice(_, _, _)
\* the n bytes of d from position pos (fewer when d ends before)
Slice(d, pos, n) ==
    IF d = <<>> \/ n = 0 THEN <<>>
    ELSE IF pos >= Head(d).len THEN Slice(Tail(d), pos - Head(d).len, n)
    ELSE LET take == Min(n, Head(d).len - pos)
         IN  Concat(<<Seg(Head(d).off + pos, take)>>, Slice(Tail(d), 0, n - take))

\* the first n bytes of the reference stream: the content of an n-byte local file
Original(n) == IF n = 0 THEN <<>> ELSE <<Seg(0, n)>>

----------------------------------------------------------------------------
(* Requests and responses (lib.rs) *)

ReqDir == [type |-> "Dir"]
ReqCdUp == [type |-> "CdUp"]
ReqCd(p) == [type |-> "Cd", path |-> p]
ReqMkdir(n) == [type |-> "Mkdir", name |-> n]
ReqCopy(s, d) == [type |-> "Copy", src |-> s, dst |-> d]
ReqUpload(dp, fn, sz) == [type |-> "Upload", dst_path |-> dp, file_name |-> fn, size |-> sz]
ReqDownload(sp) == [type |-> "Download", src_path |-> sp]
ReqUploadChunk(id, d, l) == [type |-> "UploadChunk", chunk_id |-> id, data |-> d, is_last |-> l]
ReqDownloadChunk(id) == [type |-> "DownloadChunk", chunk_id |-> id]
\* a datagram that decode_from_slice rejects
Garbage == [type |-> "Garbage"]

RespOk == [type |-> "Ok"]
RespError(m) == [type |-> "Error", msg |-> m]
RespDirList(l) == [type |-> "DirList", entries |-> l]
RespCopyResult(n) == [type |-> "CopyResult", bytes_copied |-> n]
RespFileMetadata(n, sz) == [type |-> "FileMetadata", name |-> n, size |-> sz]
RespChunkAck(id) == [type |-> "ChunkAck", chunk_id |-> id]
RespFileChunk(id, d, l) == [type |-> "FileChunk", chunk_id |-> id, data |-> d, is_last |-> l]

FsRequestTypes == {"Dir", "CdUp", "Cd", "Mkdir", "Copy"}

----------------------------------------------------------------------------
(* std::fs *)

\* (mutant) read_dir lists root, whatever directory it is given
entries_of_root(p, f) ==
    {[name |-> q[Len(q)], is_dir |-> TRUE] :
        q \in {x \in f.dirs : Len(x) = Len(Root) + 1 /\ Parent(x) = Root}}

\* fs::read_dir: the entries of the directory p denotes
Entries(p, f) ==
    LET d == Denotes(p, f)
        Child(q) == Len(q) = Len(d) + 1 /\ Parent(q) = d
    IN  {[name |-> q[Len(q)], is_dir |-> TRUE] : q \in {x \in f.dirs : Child(x)}}
        \cup {[name |-> q[Len(q)], is_dir |-> FALSE] : q \in {x \in DOMAIN f.files : Child(x)}}

\* fs::create_dir succeeds: the path resolves and names nothing yet
CanCreateDir(p, f) == Resolve(p, f).ok /\ ~Exists(p, f)

CreateDir(p, f) == [f EXCEPT !.dirs = @ \cup {Resolve(p, f).path}]

RECURSIVE CreateDirAll(_, _)
\* fs::create_dir_all, its result ignored by the caller
CreateDirAll(p, f) ==
    IF p = <<>> THEN f
    ELSE IF CanCreateDir(p, f) THEN CreateDir(p, f)
    ELSE IF Exists(p, f) THEN f
    ELSE LET g == CreateDirAll(Parent(p), f)
         IN  IF CanCreateDir(p, g) THEN CreateDir(p, g) ELSE g

\* File::create succeeds: the path resolves and is not a directory
CanCreateFile(p, f) == Resolve(p, f).ok /\ ~IsDir(p, f)

\* the file p names, created or truncated, with content d
PutFile(p, d, f) ==
    LET q == Resolve(p, f).path
    IN  [f EXCEPT !.files = [x \in DOMAIN f.files \cup {q} |->
                                IF x = q THEN d ELSE f.files[x]]]

\* fs::copy: the source must be a regular file; the destination is opened
\* with create + truncate before the source is read
CanCopy(s, d, f) == IsFile(s, f) /\ CanCreateFile(d, f)

CopiedData(s, d, f) ==
    IF Resolve(s, f).path = Resolve(d, f).path THEN <<>>
    ELSE f.files[Resolve(s, f).path]

\* (mutant) the destination is created before the source is opened
copy_failed_after_create(d, f) == IF CanCreateFile(d, f) THEN PutFile(d, <<>>, f) ELSE f

\* fs::copy returned Err: the source or the destination could not be opened,
\* and nothing was written
copy_failed(d, f) == f

\* Path::file_name: None when the path ends in ".." or is "/"
FileName(p) == IF p = <<>> \/ p[Len(p)] = UP THEN "file" ELSE p[Len(p)]

----------------------------------------------------------------------------
(* handle_fs_request: (cwd, root, req) -> (cwd, response), with the filesystem *)

FsResult(c, r, f) == [cwd |-> c, resp |-> r, fs |-> f]

\* CdUp: the lexical parent, accepted when it starts with root
cd_up(cwd, f) ==
    IF HasParent(cwd)
    THEN IF StartsWith(Parent(cwd), Root)
         THEN FsResult(Parent(cwd), RespOk, f)
         ELSE FsResult(cwd, RespError("Cannot go above root"), f)
    ELSE FsResult(cwd, RespError("No parent"), f)

\* (mutant) anything that exists under root's path is accepted
cd_accepts_existing(new, f) == Exists(new, f) /\ StartsWith(new, Root)

\* Cd: new.is_dir() && new.starts_with(&root)
cd_accepts(new, f) == IsDir(new, f) /\ StartsWith(new, Root)

\* (mutant) the new path is stored before it is checked
cd_moves_on_error(cwd, path, f) ==
    LET new == Join(cwd, path)
    IN  IF cd_accepts(new, f)
        THEN FsResult(new, RespOk, f)
        ELSE FsResult(new, RespError("Invalid path or not a directory"), f)

cd(cwd, path, f) ==
    LET new == Join(cwd, path)
    IN  IF cd_accepts(new, f)
        THEN FsResult(new, RespOk, f)
        ELSE FsResult(cwd, RespError("Invalid path or not a directory"), f)

handle_fs_request(cwd, req, f) ==
    CASE req.type = "Dir" ->
            IF IsDir(cwd, f)
            THEN FsResult(cwd, RespDirList(Entries(cwd, f)), f)
            ELSE FsResult(cwd, RespError("read_dir failed"), f)
      [] req.type = "CdUp" -> cd_up(cwd, f)
      [] req.type = "Cd" -> cd(cwd, req.path, f)
      [] req.type = "Mkdir" ->
            LET new == Join(cwd, req.name)
            IN  IF CanCreateDir(new, f)
                THEN FsResult(cwd, RespOk, CreateDir(new, f))
                ELSE FsResult(cwd, RespError("mkdir failed"), f)
      [] req.type = "Copy" ->
            LET src_p == Join(cwd, req.src)
                dst_p == Join(cwd, req.dst)
            IN  IF CanCopy(src_p, dst_p, f)
                THEN FsResult(cwd,
                              RespCopyResult(DataLen(CopiedData(src_p, dst_p, f))),
                              PutFile(dst_p, CopiedData(src_p, dst_p, f), f))
                ELSE FsResult(cwd, RespError("copy failed"), copy_failed(dst_p, f))
      [] OTHER -> FsResult(cwd, RespError("Unexpected request in FS handler"), f)

----------------------------------------------------------------------------
(* udp_server: ClientSession and the request match of main *)

None == <<>>
Some(x) == <<x>>
IsSome(o) == o # <<>>
Get(o) == o[1]

NewSession(t) ==
    [cwd |-> Root, last_activity |-> t, upload_file |-> None, download_file |-> None]

Handled(s, r, f) == [session |-> s, resp |-> r, fs |-> f]

\* Request::Upload: the destination is created and upload_file set
upload_init(session, req, f) ==
    LET dest == Join(Join(session.cwd, req.dst_path), req.file_name)
        g == IF HasParent(dest) THEN CreateDirAll(Parent(dest), f) ELSE f
    IN  IF CanCreateFile(dest, g)
        THEN Handled([session EXCEPT !.upload_file =
                         Some([file |-> Resolve(dest, g).path,
                               file_path |-> dest,
                               expected_size |-> req.size,
                               received_bytes |-> 0])],
                     RespOk,
                     PutFile(dest, <<>>, g))
        ELSE Handled(session, RespError("Cannot create file"), g)

\* (mutant) a chunk that arrives without an upload starts one in the session
upload_chunk_adopts(session, req, f, wok) ==
    IF IsSome(session.upload_file)
    THEN Handled(session, RespChunkAck(req.chunk_id), f)
    ELSE Handled([session EXCEPT !.upload_file =
                     Some([file |-> Root \o <<"f">>, file_path |-> Root \o <<"f">>,
                           expected_size |-> 0, received_bytes |-> DataLen(req.data)])],
                 RespChunkAck(req.chunk_id), f)

\* (mutant) a failed write leaves the upload open
upload_chunk_open_after_error(session, req, f, wok) ==
    IF IsSome(session.upload_file)
    THEN LET upload == Get(session.upload_file)
         IN  IF wok
             THEN Handled(
                    [session EXCEPT !.upload_file =
                        IF req.is_last THEN None
                        ELSE Some([upload EXCEPT !.received_bytes = @ + DataLen(req.data)])],
                    RespChunkAck(req.chunk_id),
                    [f EXCEPT !.files[upload.file] = Concat(@, req.data)])
             ELSE Handled(session, RespError("Write error"), f)
    ELSE Handled(session, RespError("No active upload session"), f)

\* (mutant) received_bytes counts the chunks, not their bytes
upload_chunk_counts_chunks(session, req, f, wok) ==
    IF IsSome(session.upload_file)
    THEN LET upload == Get(session.upload_file)
         IN  IF wok
             THEN Handled(
                    [session EXCEPT !.upload_file =
                        IF req.is_last THEN None
                        ELSE Some([upload EXCEPT !.received_bytes = @ + 1])],
                    RespChunkAck(req.chunk_id),
                    [f EXCEPT !.files[upload.file] = Concat(@, req.data)])
             ELSE Handled([session EXCEPT !.upload_file = None],
                          RespError("Write error"), f)
    ELSE Handled(session, RespError("No active upload session"), f)

\* Request::UploadChunk; wok: write_all succeeded
upload_chunk(session, req, f, wok) ==
    IF IsSome(session.upload_file)
    THEN LET upload == Get(session.upload_file)
         IN  IF wok
             THEN Handled(
                    [session EXCEPT !.upload_file =
                        IF req.is_last THEN None
                        ELSE Some([upload EXCEPT !.received_bytes = @ + DataLen(req.data)])],
                    RespChunkAck(req.chunk_id),
                    [f EXCEPT !.files[upload.file] = Concat(@, req.data)])
             ELSE Handled([session EXCEPT !.upload_file = None],
                          RespError("Write error"), f)
    ELSE Handled(session, RespError("No active upload session"), f)

\* (mutant) starting a download gives up the upload of the session
download_init_drops_upload(session, req, f) ==
    LET full == Join(session.cwd, req.src_path)
    IN  IF Exists(full, f)
        THEN LET size == IF IsFile(full, f) THEN DataLen(f.files[Resolve(full, f).path]) ELSE 0
             IN  Handled([session EXCEPT !.upload_file = None,
                                         !.download_file =
                             Some([file |-> Resolve(full, f).path,
                                   is_dir |-> IsDir(full, f),
                                   file_name |-> FileName(full),
                                   file_size |-> size,
                                   sent_chunks |-> 0,
                                   pos |-> 0])],
                         RespFileMetadata(FileName(full), size),
                         f)
        ELSE Handled(session, RespError("Open failed"), f)

\* Request::Download: the source is opened and download_file set
download_init(session, req, f) ==
    LET full == Join(session.cwd, req.src_path)
    IN  IF Exists(full, f)
        THEN LET size == IF IsFile(full, f) THEN DataLen(f.files[Resolve(full, f).path]) ELSE 0
             IN  Handled([session EXCEPT !.download_file =
                             Some([file |-> Resolve(full, f).path,
                                   is_dir |-> IsDir(full, f),
                                   file_name |-> FileName(full),
                                   file_size |-> size,
                                   sent_chunks |-> 0,
                                   pos |-> 0])],
                         RespFileMetadata(FileName(full), size),
                         f)
        ELSE Handled(session, RespError("Open failed"), f)

\* (mutant) the last chunk is taken to be the empty one
chunk_is_last_when_empty(n) == n = 0

\* (mutant) a full chunk is taken to be the last one as well
chunk_is_last_when_full(n) == n <= CHUNK_SIZE

\* let is_last = n < CHUNK_SIZE
chunk_is_last(n) == n < CHUNK_SIZE

\* (mutant) the read is positioned by the chunk id of the request
chunk_offset_by_id(download, chunk_id) == chunk_id * CHUNK_SIZE

\* download.file.read(&mut buf) reads at the file's own position, which only
\* the reads before it have moved
chunk_offset(download, chunk_id) == download.pos

\* Request::DownloadChunk; rok: read succeeded (it never does on a directory)
download_chunk(session, req, f, rok) ==
    IF IsSome(session.download_file)
    THEN LET download == Get(session.download_file)
             have == IF download.is_dir THEN 0 ELSE DataLen(f.files[download.file])
             at == chunk_offset(download, req.chunk_id)
             n == IF at >= have THEN 0 ELSE Min(CHUNK_SIZE, have - at)
             is_last == chunk_is_last(n)
         IN  IF rok /\ ~download.is_dir
             THEN Handled(
                    [session EXCEPT !.download_file =
                        IF is_last THEN None
                        ELSE Some([download EXCEPT !.sent_chunks = @ + 1,
                                                   !.pos = at + n])],
                    RespFileChunk(req.chunk_id,
                                  Slice(f.files[download.file], at, n),
                                  is_last),
                    f)
             ELSE Handled([session EXCEPT !.download_file = None],
                          RespError("Read error"), f)
    ELSE Handled(session, RespError("No active download session"), f)

\* let resp = match req { ... }
udp_dispatch(session, req, f, wok, rok) ==
    CASE req.type = "Upload" -> upload_init(session, req, f)
      [] req.type = "UploadChunk" -> upload_chunk(session, req, f, wok)
      [] req.type = "Download" -> download_init(session, req, f)
      [] req.type = "DownloadChunk" -> download_chunk(session, req, f, rok)
      [] OTHER ->
            LET r == handle_fs_request(session.cwd, req, f)
            IN  Handled([session EXCEPT !.cwd = r.cwd], r.resp, r.fs)

----------------------------------------------------------------------------
(* bincode (standard configuration): the encoded length of a response *)

\* varint: 1 byte below 251, 3 below 2^16, 5 below 2^32 (no number of the model
\* reaches 2^32, where the 9-byte form starts)
VarintLen(n) == IF n < 251 THEN 1 ELSE IF n < 65536 THEN 3 ELSE 5

\* the names of the files of a crowded directory: as long as a name can be
LongNames == {ToString(i) : i \in 1..BigDir}

\* lengths of the strings of the model
StrLen(str) == IF str = UP THEN 2
               ELSE IF str \in LongNames THEN 255
               ELSE IF str \in {"a", "b", "f", "g", "r"} THEN 1
               ELSE IF str = "file" THEN 4
               ELSE 64

EncodedStr(str) == VarintLen(StrLen(str)) + StrLen(str)

\* the entries of a listing, each a name and a bool, counted by name length
SumEntries(es) ==
    LET OfLen(n) == Cardinality({e \in es : StrLen(e.name) = n}) * (VarintLen(n) + n + 1)
    IN  OfLen(1) + OfLen(2) + OfLen(4) + OfLen(64) + OfLen(255)

EncodedLen(resp) ==
    1 + CASE resp.type = "Ok" -> 0
          [] resp.type = "DirList" ->
                VarintLen(Cardinality(resp.entries)) + SumEntries(resp.entries)
          [] resp.type = "CopyResult" -> VarintLen(resp.bytes_copied)
          [] resp.type = "FileMetadata" -> EncodedStr(resp.name) + VarintLen(resp.size)
          [] resp.type = "Error" -> EncodedStr(resp.msg)
          [] resp.type = "ChunkAck" -> VarintLen(resp.chunk_id)
          [] resp.type = "FileChunk" ->
                VarintLen(resp.chunk_id) + VarintLen(DataLen(resp.data))
                + DataLen(resp.data) + 1

\* (mutant) the response is sent whatever its size
udp_send_unbounded(resp, to) == <<[to |-> to, resp |-> resp]>>

\* "Encode and send response": the datagrams main hands to send_to for one response
udp_send(resp, to) ==
    IF EncodedLen(resp) > MAX_PAYLOAD_SIZE
    THEN <<[to |-> to, resp |-> RespError("Response too large for UDP")]>>
    ELSE <<[to |-> to, resp |-> resp]>>

\* (mutant) the decode failure branch goes on without a response
udp_decode_error_unanswered(to) == <<>>

\* the decode failure branch of main
udp_send_decode_error(to) == <<[to |-> to, resp |-> RespError("Invalid request")]>>

----------------------------------------------------------------------------
(* udp_server main: one iteration of the loop, in two steps, because the   *)
(* clock is read before the loop blocks in recv_from                        *)

Clients == {"c1", "c2"}

\* sessions.retain(|_, session| now - session.last_activity < 300)
session_retained(t, session) == t - session.last_activity < IDLE_LIMIT

Sweep(t, ss) == [c \in {k \in DOMAIN ss : session_retained(t, ss[k])} |-> ss[c]]

\* let now = get_timestamp(); sessions.retain(...); then block in recv_from
UdpSweep ==
    /\ mode = "udp"
    /\ spc = "top"
    /\ now' = clock
    /\ sessions' = Sweep(clock, sessions)
    /\ spc' = "recv"
    /\ UNCHANGED <<mode, clock, fs, last, tcp, cl, net>>

\* (mutant) the sender's session is replaced by a new one on every request
session_entry_resets(ss, c, t) == NewSession(t)

\* sessions.entry(client_key).or_insert_with(...); session.last_activity = now
session_entry(ss, c, t) ==
    [(IF c \in DOMAIN ss THEN ss[c] ELSE NewSession(t)) EXCEPT !.last_activity = t]

\* (mutant) a datagram that does not decode empties the session table
decode_error_drops_sessions(ss, c, t) == [k \in {} |-> NewSession(t)]

\* (mutant) the decode failure branch looks the sender's session up as well
decode_error_enters_session(ss, c, t) ==
    [k \in DOMAIN ss \cup {c} |-> IF k = c THEN session_entry(ss, c, t) ELSE ss[k]]

\* the decode failure branch of main ends in `continue`, before sessions.entry
sessions_after_decode_error(ss, c, t) == ss

\* the Ok((size, src_addr)) arm of main for a datagram from c: decode, session,
\* dispatch, encode and send
UdpHandle(c, req, wok, rok) ==
    /\ mode = "udp"
    /\ spc = "recv"
    /\ spc' = "top"
    /\ IF req.type = "Garbage"
       THEN /\ last' = [from |-> c, req |-> req, sent |-> udp_send_decode_error(c),
                        at |-> clock]
            /\ sessions' = sessions_after_decode_error(sessions, c, now)
            /\ fs' = fs
       ELSE LET h == udp_dispatch(session_entry(sessions, c, now), req, fs, wok, rok)
            IN  /\ sessions' = [k \in DOMAIN sessions \cup {c} |->
                                   IF k = c THEN h.session ELSE sessions[k]]
                /\ fs' = h.fs
                /\ last' = [from |-> c, req |-> req, sent |-> udp_send(h.resp, c),
                            at |-> clock]
    /\ UNCHANGED <<mode, clock, now, tcp>>

\* the Err(e) arm of recv_from: logged, the loop goes on
UdpRecvError ==
    /\ mode = "udp"
    /\ spc = "recv"
    /\ spc' = "top"
    /\ last' = [from |-> "none", req |-> [type |-> "None"], sent |-> <<>>, at |-> clock]
    /\ UNCHANGED <<mode, clock, now, sessions, fs, tcp, cl, net>>

\* d seconds of wall-clock time pass
Tick(d) ==
    /\ clock + d <= MaxTicks * (IDLE_LIMIT + 1)
    /\ clock' = clock + d
    /\ UNCHANGED <<mode, now, spc, sessions, fs, last, tcp, cl, net>>

----------------------------------------------------------------------------
(* tcp_server handle_client *)

TcpStep(pc, cwd, remaining, file, req, sent) ==
    [pc |-> pc, cwd |-> cwd, remaining |-> remaining, file |-> file,
     req |-> req, sent |-> sent]

Raw(d) == [type |-> "Raw", data |-> d]

\* what the handler left unchanged of the datagram server's state
TcpOnly == UNCHANGED <<mode, clock, now, spc, sessions, last>>

\* send_response(...)?: a failed write makes handle_client return the error
AfterSend(sok, pc) == IF sok THEN pc ELSE "failed"

\* the `other =>` arm: handle_fs_request, then send_response
TcpFs(req, sok) ==
    /\ mode = "tcp"
    /\ tcp.pc = "read"
    /\ LET r == handle_fs_request(tcp.cwd, req, fs)
       IN  /\ tcp' = TcpStep(AfterSend(sok, "read"), r.cwd, 0, <<>>, req, <<r.resp>>)
           /\ fs' = r.fs
    /\ TcpOnly

\* Request::Upload up to the byte loop
TcpUpload(req, sok) ==
    /\ mode = "tcp"
    /\ tcp.pc = "read"
    /\ LET dest == Join(Join(tcp.cwd, req.dst_path), req.file_name)
           g == IF HasParent(dest) THEN CreateDirAll(Parent(dest), fs) ELSE fs
       IN  IF CanCreateFile(dest, g)
           THEN /\ fs' = PutFile(dest, <<>>, g)
                /\ tcp' = TcpStep(AfterSend(sok, IF req.size > 0 THEN "upload" ELSE "read"),
                                  tcp.cwd, req.size, Resolve(dest, g).path, req, <<RespOk>>)
           ELSE /\ fs' = g
                /\ tcp' = TcpStep(AfterSend(sok, "read"), tcp.cwd, 0, <<>>, req,
                                  <<RespError("Cannot create file")>>)
    /\ TcpOnly

\* (mutant) the whole buffer is offered to read, whatever remains of the file
to_read_whole_buffer(remaining) == TCP_BUF

\* let to_read = std::cmp::min(buf.len() as u64, remaining)
to_read(remaining) == Min(TCP_BUF, remaining)

\* (mutant) a read that did not fill the slice is not written
upload_write_full_reads_only(file, buf, asked) ==
    IF DataLen(buf) = asked THEN Concat(file, buf) ELSE file

\* f.write_all(&buf[..n])
upload_write(file, buf, asked) == Concat(file, buf)

\* (mutant) the end of the stream ends the byte loop like the last byte does
after_read_eof_completes(n, remaining, wok) ==
    IF n = 0 THEN "read"
    ELSE IF ~wok THEN "failed"
    ELSE IF remaining = n THEN "read" ELSE "upload"

\* where handle_client is after a read of n bytes: returned UnexpectedEof,
\* returned the write error, back at read_request, or in the byte loop
after_read(n, remaining, wok) ==
    IF n = 0 THEN "eof"
    ELSE IF ~wok THEN "failed"
    ELSE IF remaining = n THEN "read" ELSE "upload"

\* one turn of `while remaining > 0`: read returned the bytes buf (none: end
\* of stream), which are written to the file (wok: write_all succeeded)
TcpUploadRead(buf, wok) ==
    /\ mode = "tcp"
    /\ tcp.pc = "upload"
    /\ DataLen(buf) <= to_read(tcp.remaining)
    /\ IF DataLen(buf) = 0 \/ ~wok
       THEN /\ tcp' = [tcp EXCEPT !.pc = after_read(DataLen(buf), tcp.remaining, wok)]
            /\ fs' = fs
       ELSE /\ fs' = [fs EXCEPT !.files[tcp.file] =
                         upload_write(@, buf, to_read(tcp.remaining))]
            /\ tcp' = [tcp EXCEPT !.remaining = @ - DataLen(buf),
                                  !.pc = after_read(DataLen(buf), tcp.remaining, wok)]
    /\ TcpOnly

\* metadata.len() of a directory: what the filesystem says, often a block
DirLens == {0, 4096}

\* Request::Download: the metadata, then io::copy of the whole file (rok: the
\* reads succeeded; they never do on a directory, which File::open opens)
TcpDownload(req, sok, rok, dlen) ==
    /\ mode = "tcp"
    /\ tcp.pc = "read"
    /\ LET full == Join(tcp.cwd, req.src_path)
       IN  IF Exists(full, fs)
           THEN IF IsFile(full, fs) /\ sok /\ rok
                THEN LET d == fs.files[Resolve(full, fs).path]
                     IN  tcp' = TcpStep("read", tcp.cwd, 0, <<>>, req,
                                        <<RespFileMetadata(FileName(full), DataLen(d)), Raw(d)>>)
                ELSE tcp' = TcpStep("failed", tcp.cwd, 0, <<>>, req,
                                    <<RespFileMetadata(FileName(full),
                                        IF IsFile(full, fs)
                                        THEN DataLen(fs.files[Resolve(full, fs).path])
                                        ELSE dlen)>>)
           ELSE tcp' = TcpStep(AfterSend(sok, "read"), tcp.cwd, 0, <<>>, req,
                               <<RespError("Open failed")>>)
    /\ fs' = fs
    /\ TcpOnly

\* read_request fails on bytes that do not decode as a Request: break
TcpGarbage ==
    /\ mode = "tcp"
    /\ tcp.pc = "read"
    /\ tcp' = [tcp EXCEPT !.pc = "closed", !.req = Garbage, !.sent = <<>>]
    /\ fs' = fs
    /\ TcpOnly

\* read_request fails because the peer closed the connection: break
TcpClose ==
    /\ mode = "tcp"
    /\ tcp.pc = "read"
    /\ tcp' = [tcp EXCEPT !.pc = "closed", !.req = [type |-> "None"], !.sent = <<>>]
    /\ fs' = fs
    /\ TcpOnly

----------------
(* Initial states *)

NoRequest == [type |-> "None"]

\* udp_client: the locals of do_upload / do_download, and what they came to
ClientIdle ==
    [pc |-> "idle", op |-> "none", size |-> 0, pos |-> 0, chunk_id |-> 0, n |-> 0,
     is_last |-> FALSE, total |-> 0, sent |-> <<>>, rcvd |-> <<>>, local |-> <<>>,
     result |-> "none", ops |-> 0]

InitCommon ==
    /\ mode \in {"udp", "tcp"}
    /\ clock = 0
    /\ now = 0
    /\ spc = "top"
    /\ sessions = [c \in {} |-> NewSession(0)]
    /\ last = [from |-> "none", req |-> NoRequest, sent |-> <<>>, at |-> 0]
    /\ tcp = TcpStep("read", Root, 0, <<>>, NoRequest, <<>>)
    /\ cl = ClientIdle
    /\ net = [toServer |-> <<>>, toClient |-> <<>>]

\* the root directory exists; it holds one file of one byte
Init ==
    /\ InitCommon
    /\ fs = [dirs |-> {<<>>, Root}, files |-> [x \in {Root \o <<"f">>} |-> Original(1)]]

----------------------------------------------------------------------------
(* Spec: the filesystem requests, sent by one datagram client or over the  *)
(* stream connection                                                        *)

\* the paths clients send: "", "a", "..", "a/..", "a/../..", "../r", "/", "/r"
CdPaths == {Rel(<<>>), Rel(<<"a">>), Rel(<<UP>>), Rel(<<"a", UP>>), Rel(<<"a", UP, UP>>),
            Rel(<<UP, "r">>), Abs(<<>>), Abs(Root)}
MkdirNames == {Rel(<<"a">>)}
CopyPairs == {<<Rel(<<"f">>), Rel(<<"g">>)>>, <<Rel(<<"f">>), Rel(<<"a">>)>>}

\* the current directory a request of c is handled against
CwdOf(ss, c) == IF c \in DOMAIN ss THEN ss[c].cwd ELSE Root

CdInBounds(cwd, p) == Len(Join(cwd, p)) <= MaxCwdLen

Quiet == UNCHANGED <<cl, net>>

UdpDir(c) == UdpHandle(c, ReqDir, TRUE, TRUE) /\ Quiet
UdpCdUp(c) == UdpHandle(c, ReqCdUp, TRUE, TRUE) /\ Quiet
UdpCd(c, p) ==
    /\ CdInBounds(CwdOf(sessions, c), p)
    /\ UdpHandle(c, ReqCd(p), TRUE, TRUE) /\ Quiet
UdpMkdir(c, n) == UdpHandle(c, ReqMkdir(n), TRUE, TRUE) /\ Quiet
UdpCopy(c, s, d) == UdpHandle(c, ReqCopy(s, d), TRUE, TRUE) /\ Quiet
UdpGarbage(c) == UdpHandle(c, Garbage, TRUE, TRUE) /\ Quiet

TcpDir(sok) == TcpFs(ReqDir, sok) /\ Quiet
TcpCdUp(sok) == TcpFs(ReqCdUp, sok) /\ Quiet
TcpCd(p, sok) == CdInBounds(tcp.cwd, p) /\ TcpFs(ReqCd(p), sok) /\ Quiet
TcpMkdir(n, sok) == TcpFs(ReqMkdir(n), sok) /\ Quiet
TcpCopy(s, d, sok) == TcpFs(ReqCopy(s, d), sok) /\ Quiet
TcpPeerCloses == TcpClose /\ Quiet
TcpUndecodable == TcpGarbage /\ Quiet

Next ==
    \/ UdpSweep
    \/ UdpRecvError
    \/ UdpDir("c1")
    \/ UdpCdUp("c1")
    \/ \E p \in CdPaths : UdpCd("c1", p)
    \/ \E n \in MkdirNames : UdpMkdir("c1", n)
    \/ \E sd \in CopyPairs : UdpCopy("c1", sd[1], sd[2])
    \/ UdpGarbage("c1")
    \/ \E sok \in BOOLEAN : TcpDir(sok)
    \/ \E sok \in BOOLEAN : TcpCdUp(sok)
    \/ \E p \in CdPaths, sok \in BOOLEAN : TcpCd(p, sok)
    \/ \E n \in MkdirNames, sok \in BOOLEAN : TcpMkdir(n, sok)
    \/ \E sd \in CopyPairs, sok \in BOOLEAN : TcpCopy(sd[1], sd[2], sok)
    \/ TcpPeerCloses
    \/ TcpUndecodable

Spec == Init /\ [][Next]_vars

----------------------------------------------------------------------------
(* Steps and observations the properties speak about *)

\* this step is udp_server handling a decodable or undecodable datagram of c
UdpHandled(c) ==
    /\ spc = "recv"
    /\ spc' # "recv"
    /\ last'.from = c
    /\ last'.req.type # "None"

\* this step is tcp_server reading and answering a request
TcpHandled ==
    /\ tcp.pc = "read"
    /\ tcp' # tcp
    /\ tcp'.req.type # "None"

\* the response the server sent for the datagram handled last
LastResp == last.sent[1].resp

RECURSIVE Lexical(_, _)
\* a path with its ".." components applied textually, from cur
Lexical(cur, comps) ==
    IF comps = <<>> THEN cur
    ELSE IF Head(comps) = UP
         THEN Lexical(IF cur = <<>> THEN <<>> ELSE Parent(cur), Tail(comps))
         ELSE Lexical(Append(cur, Head(comps)), Tail(comps))

\* following the client's path p from cwd leaves root at some point
Escapes(cwd, p) ==
    LET new == Join(cwd, p)
        start == IF p.abs THEN Min(1, Len(new)) ELSE Len(cwd)
    IN  \E k \in start..Len(new) : ~StartsWith(Lexical(<<>>, SubSeq(new, 1, k)), Root)

\* the directory p denotes is root or lies beneath it
InsideRoot(p, f) == StartsWith(Denotes(p, f), Root)

----------------------------------------------------------------------------
(* C1: the current directory of every datagram session and of the stream   *)
(* connection handler always denotes root or a directory beneath root.      *)
C1_SandboxInvariant ==
    /\ \A c \in DOMAIN sessions : InsideRoot(sessions[c].cwd, fs)
    /\ InsideRoot(tcp.cwd, fs)

(* C2: a Cd whose path, followed from a current directory inside root,     *)
(* escapes above root is answered with Error and leaves the current        *)
(* directory unchanged, whatever directories exist.                         *)
C2_CdEscapeRejected ==
    [][\A c \in Clients :
         (/\ UdpHandled(c)
          /\ last'.req.type = "Cd"
          /\ InsideRoot(CwdOf(sessions, c), fs)
          /\ Escapes(CwdOf(sessions, c), last'.req.path))
         => /\ last'.sent[1].resp.type = "Error"
            /\ sessions'[c].cwd = CwdOf(sessions, c)]_vars

(* C3: CdUp issued while the current directory is root returns Error and   *)
(* leaves it at root; CdUp issued in a direct child of root returns Ok     *)
(* and sets the current directory to root.                                  *)
C3_CdUpAtRootAndChild ==
    [][\A c \in Clients :
         (UdpHandled(c) /\ last'.req.type = "CdUp")
         => LET before == Denotes(CwdOf(sessions, c), fs)
                after == Denotes(sessions'[c].cwd, fs')
            IN  /\ before = Root
                   => last'.sent[1].resp.type = "Error" /\ after = Root
                /\ (Len(before) = Len(Root) + 1 /\ Parent(before) = Root)
                   => last'.sent[1].resp.type = "Ok" /\ after = Root]_vars

(* C4: a filesystem request (Dir, CdUp, Cd, Mkdir, Copy) answered with     *)
(* Error leaves the current directory as it was, and the serving loop      *)
(* goes back to the top to read the next request.                           *)
C4_ErrorLeavesCwd ==
    [][/\ \A c \in Clients :
            (/\ UdpHandled(c)
             /\ last'.req.type \in FsRequestTypes
             /\ last'.sent[1].resp.type = "Error")
            => /\ sessions'[c].cwd = CwdOf(sessions, c)
               /\ spc' = "top"
       /\ (/\ TcpHandled
           /\ tcp'.req.type \in FsRequestTypes
           /\ tcp'.sent[1].type = "Error")
          => tcp'.cwd = tcp.cwd]_vars

\* a Cd was refused in a session that had left root's path before
C4_Witness ==
    /\ last.req.type = "Cd"
    /\ LastResp.type = "Error"
    /\ "c1" \in DOMAIN sessions
    /\ sessions["c1"].cwd # Root

----------------------------------------------------------------------------
(* SpecXfer: every kind of request, the transfer requests with their       *)
(* parameters varied, sent by one datagram client or over the stream        *)
(* connection                                                               *)

\* file sizes around the multiples of the chunk size
Sizes ==
    {k * CHUNK_SIZE + d : k \in 0..(MaxFileChunks - 1), d \in {0, CHUNK_SIZE - 1}}
        \cup {MaxFileChunks * CHUNK_SIZE}

\* root holds the directory "a" and the file "f", of any of the sizes
InitXfer ==
    /\ InitCommon
    /\ \E n \in Sizes :
         fs = [dirs |-> {<<>>, Root, Root \o <<"a">>},
               files |-> [x \in {Root \o <<"f">>} |-> Original(n)]]

ChunkIds == 0..1
ChunkData == {<<>>, <<Seg(0, CHUNK_SIZE)>>}
DownloadPaths == {Rel(<<"f">>), Rel(<<"a">>)}

\* the file of c's upload grows to one chunk at most
UploadInBounds(c, d) ==
    (c \in DOMAIN sessions /\ IsSome(sessions[c].upload_file))
        => DataLen(fs.files[Get(sessions[c].upload_file).file]) + DataLen(d) <= CHUNK_SIZE

UdpUpload(c, dp, fn, sz) == UdpHandle(c, ReqUpload(dp, fn, sz), TRUE, TRUE) /\ Quiet
UdpUploadChunk(c, id, d, l, wok) ==
    /\ UploadInBounds(c, d)
    /\ UdpHandle(c, ReqUploadChunk(id, d, l), wok, TRUE) /\ Quiet
UdpDownload(c, sp) == UdpHandle(c, ReqDownload(sp), TRUE, TRUE) /\ Quiet
UdpDownloadChunk(c, id, rok) == UdpHandle(c, ReqDownloadChunk(id), TRUE, rok) /\ Quiet

\* read returns the bytes asked for, one fewer, or none (end of stream)
TcpReadChoices ==
    {0, to_read(tcp.remaining)} \cup {n \in {to_read(tcp.remaining) - 1} : n > 0}

\* the bytes of the upload the stream holds next
NextBytes(n) == IF n = 0 THEN <<>> ELSE <<Seg(tcp.req.size - tcp.remaining, n)>>

TcpUploadTo(req, sok) == TcpUpload(req, sok) /\ Quiet
TcpUploadBytes(n, wok) == TcpUploadRead(NextBytes(n), wok) /\ Quiet
TcpDownloadOf(req, sok, rok, dlen) == TcpDownload(req, sok, rok, dlen) /\ Quiet

NextXfer ==
    \/ UdpSweep
    \/ UdpRecvError
    \/ UdpDir("c1")
    \/ UdpCdUp("c1")
    \/ UdpCd("c1", Rel(<<"a">>))
    \/ UdpMkdir("c1", Abs(Root \o <<"b">>))
    \/ UdpCopy("c1", Rel(<<"f">>), Rel(<<"g">>))
    \/ UdpGarbage("c1")
    \/ UdpUpload("c1", Abs(Root), Rel(<<"u">>), CHUNK_SIZE)
    \/ \E id \in ChunkIds, d \in ChunkData, l \in BOOLEAN, wok \in BOOLEAN :
          UdpUploadChunk("c1", id, d, l, wok)
    \/ \E sp \in DownloadPaths : UdpDownload("c1", sp)
    \/ \E id \in ChunkIds, rok \in BOOLEAN : UdpDownloadChunk("c1", id, rok)
    \/ \E sok \in BOOLEAN : TcpDir(sok)
    \/ \E sok \in BOOLEAN : TcpCdUp(sok)
    \/ \E sok \in BOOLEAN : TcpCd(Rel(<<"a">>), sok)
    \/ \E sok \in BOOLEAN : TcpMkdir(Abs(Root \o <<"b">>), sok)
    \/ \E sok \in BOOLEAN : TcpCopy(Rel(<<"f">>), Rel(<<"g">>), sok)
    \/ \E sz \in {0, 1, TCP_BUF + 1}, sok \in BOOLEAN :
          TcpUploadTo(ReqUpload(Abs(Root), Rel(<<"u">>), sz), sok)
    \/ \E n \in TcpReadChoices, wok \in BOOLEAN : TcpUploadBytes(n, wok)
    \/ \E sp \in DownloadPaths, sok \in BOOLEAN, rok \in BOOLEAN, dlen \in DirLens :
          TcpDownloadOf(ReqDownload(sp), sok, rok, dlen)
    \/ TcpPeerCloses
    \/ TcpUndecodable

SpecXfer == InitXfer /\ [][NextXfer]_vars

----------------------------------------------------------------------------
\* the session a request of c is handled against: c's own, or a new one
SessionOf(ss, c) == IF c \in DOMAIN ss THEN ss[c] ELSE NewSession(0)

\* the Response messages among what the stream server sent for a request
RECURSIVE Responses(_)
Responses(sent) ==
    IF sent = <<>> THEN 0
    ELSE (IF Head(sent).type = "Raw" THEN 0 ELSE 1) + Responses(Tail(sent))

C8_ChunkWithoutState ==
    [][\A c \in Clients :
         LET before == SessionOf(sessions, c)
             NoState == \/ /\ last'.req.type = "UploadChunk"
                           /\ ~IsSome(before.upload_file)
                        \/ /\ last'.req.type = "DownloadChunk"
                           /\ ~IsSome(before.download_file)
         IN  (UdpHandled(c) /\ NoState)
             => /\ last'.sent[1].resp.type = "Error"
                /\ fs' = fs
                /\ sessions'[c].cwd = before.cwd
                /\ sessions'[c].upload_file = before.upload_file
                /\ sessions'[c].download_file = before.download_file]_vars

\* an UploadChunk was refused in a session that has left root and has a download open
C8_Witness ==
    /\ last.req.type = "UploadChunk"
    /\ LastResp.type = "Error"
    /\ LastResp.msg = "No active upload session"
    /\ sessions["c1"].cwd # Root
    /\ IsSome(sessions["c1"].download_file)

(* C9: a FileChunk reply to a DownloadChunk has is_last = true exactly     *)
(* when the read returned fewer than CHUNK_SIZE bytes; download_state is   *)
(* removed when is_last is true and kept when it is false.                  *)
C9_IsLastIffShortRead ==
    [][\A c \in Clients :
         (/\ UdpHandled(c)
          /\ last'.req.type = "DownloadChunk"
          /\ IsSome(SessionOf(sessions, c).download_file)
          /\ last'.sent[1].resp.type = "FileChunk")
         => LET chunk == last'.sent[1].resp
            IN  /\ chunk.is_last <=> (DataLen(chunk.data) < CHUNK_SIZE)
                /\ IsSome(sessions'[c].download_file) <=> ~chunk.is_last]_vars

\* a full chunk was sent and the download kept open
C9_Witness ==
    /\ last.req.type = "DownloadChunk"
    /\ LastResp.type = "FileChunk"
    /\ DataLen(LastResp.data) = CHUNK_SIZE
    /\ IsSome(sessions["c1"].download_file)

----------------------------------------------------------------------------
(* SpecTime: the datagram server with the clock running; client c1 moves   *)
(* about and transfers, client c2 only lists                                *)

\* root holds the directory "a" and the file "f", two chunks long
InitTime ==
    /\ InitCommon
    /\ mode = "udp"
    /\ fs = [dirs |-> {<<>>, Root, Root \o <<"a">>},
             files |-> [x \in {Root \o <<"f">>} |-> Original(CHUNK_SIZE)]]

\* idle periods just below, at and just above the limit
TickSteps == {IDLE_LIMIT - 1, IDLE_LIMIT, IDLE_LIMIT + 1}

NextTime ==
    \/ UdpSweep
    \/ UdpRecvError
    \/ \E d \in TickSteps : Tick(d)
    \/ \E c \in Clients : UdpDir(c)
    \/ UdpCd("c1", Rel(<<"a">>))
    \/ UdpDownload("c1", Rel(<<"f">>))
    \/ UdpDownloadChunk("c1", 0, TRUE)
    \/ UdpUpload("c1", Rel(<<>>), Rel(<<"u">>), CHUNK_SIZE)
    \/ UdpUploadChunk("c1", 0, <<>>, FALSE, TRUE)

SpecTime == InitTime /\ [][NextTime]_vars

\* no transfer is open in the session
Fresh(session) ==
    /\ session.cwd = Root
    /\ ~IsSome(session.upload_file)
    /\ ~IsSome(session.download_file)

(* C7: when a client's request arrives more than IDLE_LIMIT seconds after  *)
(* its previous one, it is handled in a brand-new session: the current     *)
(* directory is root and there is no upload_state and no download_state    *)
(* (a chunk request is then answered with Error).                           *)
C7_IdleClientStartsAfresh ==
    [][\A c \in Clients :
         (/\ UdpHandled(c)
          /\ last'.req.type # "Garbage"
          /\ last.from = c
          /\ last.req.type \notin {"None", "Garbage"}
          /\ clock - last.at > IDLE_LIMIT)
         => /\ Fresh(SessionOf(sessions, c))
            /\ last'.req.type \in {"UploadChunk", "DownloadChunk"}
                  => last'.sent[1].resp.type = "Error"]_vars

----------------------------------------------------------------------------
(* udp_client: do_upload and do_download, one exchange of send_request at  *)
(* a time, over a channel that delivers every datagram once and in order    *)

Me == "c1"

ServerUnchanged == UNCHANGED <<mode, clock, now, spc, sessions, fs, last, tcp>>

\* socket.send(&data)
Send(req) == net' = [net EXCEPT !.toServer = Append(@, [from |-> Me, req |-> req])]

\* socket.recv(&mut buf): the response at the head of the channel
Arrived == net.toClient # <<>> /\ Head(net.toClient).to = Me
Received == Head(net.toClient).resp
Recv == [net EXCEPT !.toClient = Tail(@)]

\* the operation returns; the client is back at its prompt
Returned(result) == [cl EXCEPT !.pc = "idle", !.result = result]

\* socket.recv fails after TIMEOUT_SECS without a datagram: the operation
\* returns the error, whatever is still on its way
Timeout ==
    /\ cl.pc \notin {"idle", "up_read"}
    /\ net.toClient = <<>>
    /\ cl' = Returned("err")
    /\ net' = net
    /\ ServerUnchanged

\* (mutant) the id of the response is not looked at
ack_unchecked(resp_id, chunk_id) == TRUE

\* `ack_id != chunk_id` / `resp_chunk_id != chunk_id` did not fire
ack_matches(resp_id, chunk_id) == resp_id = chunk_id

\* a chunk id two ahead of the one acknowledged
chunk_id_skips(id) == id + 2

\* chunk_id += 1
next_chunk_id(id) == id + 1

\* do_upload: the Upload request for the local file of `size` bytes
UploadStart(size) ==
    /\ cl.pc = "idle"
    /\ cl.ops < MaxOps
    /\ cl' = [ClientIdle EXCEPT !.pc = "up_init", !.op = "upload", !.size = size,
                                !.local = cl.local, !.ops = cl.ops + 1]
    /\ Send(ReqUpload(Rel(<<>>), Rel(<<"u">>), size))
    /\ ServerUnchanged

\* do_upload: the response to Upload
UploadInit ==
    /\ cl.pc = "up_init"
    /\ Arrived
    /\ cl' = IF Received.type = "Ok" THEN [cl EXCEPT !.pc = "up_read"] ELSE Returned("err")
    /\ net' = Recv
    /\ ServerUnchanged

\* do_upload: f.read(&mut buf), then the UploadChunk request
UploadRead ==
    /\ cl.pc = "up_read"
    /\ LET n == Min(CHUNK_SIZE, cl.size - cl.pos)
           is_last == n < CHUNK_SIZE
       IN  IF n = 0
           THEN /\ cl' = Returned("ok")
                /\ net' = net
           ELSE /\ cl' = [cl EXCEPT !.pc = "up_ack", !.n = n, !.is_last = is_last,
                                    !.pos = @ + n,
                                    !.sent = Append(@, [chunk_id |-> cl.chunk_id,
                                                        len |-> n,
                                                        is_last |-> is_last])]
                /\ Send(ReqUploadChunk(cl.chunk_id, <<Seg(cl.pos, n)>>, is_last))
    /\ ServerUnchanged

\* do_upload: the response to UploadChunk
UploadAck ==
    /\ cl.pc = "up_ack"
    /\ Arrived
    /\ cl' = IF Received.type = "ChunkAck"
             THEN IF ~ack_matches(Received.chunk_id, cl.chunk_id)
                  THEN Returned("Chunk ID mismatch")
                  ELSE IF cl.is_last
                       THEN [Returned("ok") EXCEPT !.total = @ + cl.n, !.rcvd = Append(@, Received.chunk_id)]
                       ELSE [cl EXCEPT !.pc = "up_read", !.total = @ + cl.n,
                                       !.rcvd = Append(@, Received.chunk_id),
                                       !.chunk_id = next_chunk_id(cl.chunk_id)]
             ELSE Returned("err")
    /\ net' = Recv
    /\ ServerUnchanged

\* do_download: the Download request
DownloadStart(src) ==
    /\ cl.pc = "idle"
    /\ cl.ops < MaxOps
    /\ cl' = [ClientIdle EXCEPT !.pc = "dl_meta", !.op = "download",
                                !.local = cl.local, !.ops = cl.ops + 1]
    /\ Send(ReqDownload(src))
    /\ ServerUnchanged

\* do_download: the response to Download, the local file created (lok), and
\* the first DownloadChunk request
DownloadMeta(lok) ==
    /\ cl.pc = "dl_meta"
    /\ Arrived
    /\ IF Received.type = "FileMetadata" /\ lok
       THEN /\ cl' = [cl EXCEPT !.pc = "dl_chunk", !.size = Received.size, !.local = <<>>,
                                !.sent = <<[chunk_id |-> 0]>>]
            /\ net' = [toServer |-> Append(net.toServer,
                                           [from |-> Me, req |-> ReqDownloadChunk(0)]),
                       toClient |-> Tail(net.toClient)]
       ELSE /\ cl' = Returned("err")
            /\ net' = Recv
    /\ ServerUnchanged

\* do_download: the response to DownloadChunk, and the next request
DownloadChunkResp ==
    /\ cl.pc = "dl_chunk"
    /\ Arrived
    /\ IF Received.type = "FileChunk" /\ ~ack_matches(Received.chunk_id, cl.chunk_id)
       THEN /\ cl' = Returned("Chunk ID mismatch")
            /\ net' = Recv
       ELSE IF Received.type = "FileChunk"
       THEN LET got == [cl EXCEPT !.local = Concat(@, Received.data),
                                  !.total = @ + DataLen(Received.data),
                                  !.rcvd = Append(@, Received.chunk_id)]
            IN  IF Received.is_last
                THEN /\ cl' = [got EXCEPT !.pc = "idle", !.result = "ok"]
                     /\ net' = Recv
                ELSE /\ cl' = [got EXCEPT !.chunk_id = next_chunk_id(cl.chunk_id),
                                          !.sent = Append(@,
                                              [chunk_id |-> next_chunk_id(cl.chunk_id)])]
                     /\ net' = [toServer |->
                                   Append(net.toServer,
                                          [from |-> Me,
                                           req |-> ReqDownloadChunk(
                                                      next_chunk_id(cl.chunk_id))]),
                                toClient |-> Tail(net.toClient)]
       ELSE /\ cl' = Returned("err")
            /\ net' = Recv
    /\ ServerUnchanged

\* udp_server main: the datagram at the head of the channel is received and
\* handled, and the response sent back
UdpServe(wok, rok) ==
    /\ net.toServer # <<>>
    /\ UdpHandle(Head(net.toServer).from, Head(net.toServer).req, wok, rok)
    /\ net' = [toServer |-> Tail(net.toServer), toClient |-> net.toClient \o last'.sent]
    /\ cl' = cl

\* sizes of the files transferred: around the multiples of the chunk size
ClientSizes == {k * CHUNK_SIZE + d : k \in 0..MaxChunks, d \in {0, 1, CHUNK_SIZE - 1}}

\* the datagram server runs; root holds the file "f"
InitClient ==
    /\ InitCommon
    /\ mode = "udp"
    /\ \E n \in ClientSizes :
         fs = [dirs |-> {<<>>, Root}, files |-> [x \in {Root \o <<"f">>} |-> Original(n)]]

NextClient ==
    \/ UdpSweep
    \/ \E wok \in BOOLEAN, rok \in BOOLEAN : UdpServe(wok, rok)
    \/ \E size \in ClientSizes : UploadStart(size)
    \/ UploadInit
    \/ UploadRead
    \/ UploadAck
    \/ \E src \in {Rel(<<"f">>), Rel(<<"u">>)} : DownloadStart(src)
    \/ \E lok \in BOOLEAN : DownloadMeta(lok)
    \/ DownloadChunkResp
    \/ Timeout

SpecClient == InitClient /\ [][NextClient]_vars

----------------------------------------------------------------------------
\* the number of chunks of n bytes: ceil(n / CHUNK_SIZE)
CeilChunks(n) == (n + CHUNK_SIZE - 1) \div CHUNK_SIZE

(* C6: a chunked upload of an N-byte file that has returned has sent       *)
(* exactly ceil(N / CHUNK_SIZE) UploadChunk requests, with the chunk ids   *)
(* 0, 1, ... in order, is_last = true on the final chunk and false on      *)
(* every other one.                                                         *)
C6_UploadChunking ==
    (cl.op = "upload" /\ cl.result = "ok")
    => /\ Len(cl.sent) = CeilChunks(cl.size)
       /\ \A i \in 1..Len(cl.sent) :
             /\ cl.sent[i].chunk_id = i - 1
             /\ cl.sent[i].is_last <=> (i = Len(cl.sent))

(* C10: in a chunked upload and in a chunked download the client has at    *)
(* most one chunk request outstanding: the ids it sends are 0, 1, 2, ...   *)
(* and the request with id n + 1 is sent only after the response with id   *)
(* n has been received.                                                     *)
C10_OneChunkOutstanding ==
    /\ \A i \in 1..Len(cl.sent) : cl.sent[i].chunk_id = i - 1
    /\ Len(cl.sent) <= Len(cl.rcvd) + 1
    /\ \A i \in 1..Len(cl.rcvd) : cl.rcvd[i] = cl.sent[i].chunk_id

\* the third chunk of an upload is on its way, after two acknowledgements
C10_Witness ==
    /\ cl.op = "upload"
    /\ Len(cl.sent) = 3
    /\ cl.rcvd = <<0, 1>>
    /\ Len(net.toServer) = 1

----------------------------------------------------------------------------
(* SpecNet: the datagram client and server over a network that may deliver *)
(* a response twice                                                          *)

\* the datagram at the head of the client's queue is duplicated on its way
NetDuplicate ==
    /\ net.toClient # <<>>
    /\ Len(net.toClient) < MaxInFlight
    /\ net' = [net EXCEPT !.toClient = <<Head(@)>> \o @]
    /\ cl' = cl
    /\ ServerUnchanged

NextNet == NextClient \/ NetDuplicate

SpecNet == InitClient /\ [][NextNet]_vars

\* this step is the client receiving a chunk response whose id is not the one
\* of the request it just sent
MismatchReceived ==
    /\ cl.pc \in {"up_ack", "dl_chunk"}
    /\ Arrived
    /\ cl' # cl
    /\ Received.type = (IF cl.pc = "up_ack" THEN "ChunkAck" ELSE "FileChunk")
    /\ Received.chunk_id # cl.chunk_id

(* C11: when the client receives a ChunkAck or FileChunk whose chunk_id    *)
(* differs from that of the request it just sent, the transfer returns an  *)
(* error: no further request is sent (no next chunk, no retry) and the     *)
(* chunk's data is not written to the local file.                           *)
C11_MismatchAborts ==
    [][MismatchReceived
         => /\ cl'.pc = "idle"
            /\ cl'.result \notin {"none", "ok"}
            /\ net'.toServer = net.toServer
            /\ cl'.sent = cl.sent
            /\ cl'.local = cl.local
            /\ cl'.total = cl.total]_vars

\* a download was given up at its second chunk, the first one written
C11_Witness ==
    /\ cl.op = "download"
    /\ cl.result = "Chunk ID mismatch"
    /\ cl.chunk_id = 1
    /\ DataLen(cl.local) = CHUNK_SIZE

----------------------------------------------------------------------------
(* C12: handling a datagram that does not decode as a Request sends one    *)
(* Error response to the sender and touches no session: none is created,   *)
(* and no session's last_activity, current directory, upload_state or      *)
(* download_state changes.                                                  *)
C12_DecodeErrorTouchesNoSession ==
    [][\A c \in Clients :
         (UdpHandled(c) /\ last'.req.type = "Garbage")
         => /\ sessions' = sessions
            /\ fs' = fs
            /\ Len(last'.sent) = 1
            /\ last'.sent[1].to = c
            /\ last'.sent[1].resp.type = "Error"]_vars

\* an undecodable datagram of a sender without a session has been answered
C12_Witness ==
    /\ last.req.type = "Garbage"
    /\ last.from = "c1"
    /\ Len(last.sent) = 1
    /\ "c1" \notin DOMAIN sessions

----------------------------------------------------------------------------
(* SpecBig: two datagram clients move about and list, with a directory     *)
(* whose listing does not fit a datagram                                    *)

\* root holds the file "f" and the directory "a", which holds BigDir files
InitBig ==
    /\ InitCommon
    /\ mode = "udp"
    /\ fs = [dirs |-> {<<>>, Root, Root \o <<"a">>},
             files |-> [x \in {Root \o <<"f">>} \cup {Root \o <<"a", n>> : n \in LongNames}
                          |-> Original(0)]]

NextBig ==
    \/ UdpSweep
    \/ UdpRecvError
    \/ \E c \in Clients : UdpDir(c)
    \/ UdpCdUp("c1")
    \/ \E c \in Clients : UdpCd(c, Rel(<<"a">>))
    \/ UdpMkdir("c1", Rel(<<"b">>))
    \/ UdpGarbage("c1")

SpecBig == InitBig /\ [][NextBig]_vars

(* C13: the datagram server never sends a datagram of more than            *)
(* MAX_PAYLOAD_SIZE bytes: when the encoded Response is larger it sends an *)
(* Error response that fits instead, and the session and the filesystem    *)
(* change as the request alone makes them change.                           *)
C13_PayloadBound ==
    [][\A c \in Clients :
         (UdpHandled(c) /\ last'.req.type # "Garbage")
         => LET h == udp_dispatch(session_entry(sessions, c, now), last'.req, fs, TRUE, TRUE)
            IN  /\ \A i \in 1..Len(last'.sent) :
                      EncodedLen(last'.sent[i].resp) <= MAX_PAYLOAD_SIZE
                /\ Len(last'.sent) = 1
                /\ EncodedLen(h.resp) > MAX_PAYLOAD_SIZE
                      => last'.sent[1].resp.type = "Error"
                /\ EncodedLen(h.resp) <= MAX_PAYLOAD_SIZE
                      => last'.sent[1].resp = h.resp
                /\ sessions'[c] = h.session
                /\ fs' = h.fs]_vars

\* the listing of the crowded directory was asked for and refused for its size
C13_Witness ==
    /\ last.req.type = "Dir"
    /\ LastResp.type = "Error"
    /\ LastResp.msg = "Response too large for UDP"
    /\ Cardinality(Entries(sessions[last.from].cwd, fs)) >= BigDir

----------------------------------------------------------------------------
(* C14: no server-side error ends the dispatch loop of either server:      *)
(* after an undecodable request, a filesystem failure or a refused request *)
(* the server has sent a response and is ready to read the next request.   *)
C14_ErrorsKeepServing ==
    [][/\ \A c \in Clients :
            (UdpHandled(c) /\ last'.sent # <<>> /\ last'.sent[1].resp.type = "Error")
            => spc' = "top"
       /\ (TcpHandled /\ tcp'.req.type = "Garbage")
            => /\ tcp'.pc = "read"
               /\ Responses(tcp'.sent) = 1]_vars

----------------------------------------------------------------------------
(* SpecStream: tcp_client and tcp_server over one connection. Each         *)
(* direction of the stream is a queue of encoded messages, runs of raw     *)
(* file bytes, and the end of the stream.                                   *)

\* an encoded message; n numbers the request it is, or the request it answers
Msg(body, n) == [k |-> "msg", body |-> body, n |-> n]
Bytes(d) == [k |-> "raw", data |-> d]
Eof == [k |-> "eof"]

\* tcp_client: where it is in main's loop, and what it has sent and decoded
StreamClientIdle ==
    [pc |-> "idle", op |-> "none", size |-> 0, src |-> "", remaining |-> 0,
     local |-> <<>>, reqs |-> <<>>, decoded |-> <<>>, uploaded |-> -1,
     result |-> "none", ops |-> 0]

\* encode_into_std_write(req, stream)
Write(req) ==
    [net EXCEPT !.toServer = Append(@, Msg(req, Len(cl.reqs) + 1))]

\* decode_from_std_read(stream): the message next in the stream, or whatever
\* the bytes there decode as
Decoded == Head(net.toClient)
Note(item) == [n |-> IF item.k = "msg" THEN item.n ELSE 0,
               type |-> IF item.k = "msg" THEN item.body.type ELSE item.k]

\* the operation returns to main's loop
StreamReturned(result) == [cl EXCEPT !.pc = "idle", !.result = result]

\* the decode of a response met raw file bytes or the end of the stream
Undecoded(item) ==
    [cl EXCEPT !.pc = IF item.k = "eof" THEN "gone" ELSE "desync",
               !.result = IF item.k = "eof" THEN "eof" ELSE "desync",
               !.decoded = IF item.k = "eof" THEN @ ELSE Append(@, Note(item))]

\* main: a command begins
Begin(op, req) ==
    [cl EXCEPT !.pc = op, !.op = op, !.result = "none", !.ops = @ + 1,
               !.reqs = Append(@, req.type)]

\* send_request: the request is written
StreamRequest(req) ==
    /\ cl.pc = "idle"
    /\ cl.ops < MaxOps
    /\ cl' = Begin("request", req)
    /\ net' = Write(req)
    /\ UNCHANGED <<mode, clock, now, spc, sessions, fs, last, tcp>>

\* send_request: the response is decoded
StreamResponse ==
    /\ cl.pc = "request"
    /\ net.toClient # <<>>
    /\ cl' = IF Decoded.k = "msg"
             THEN [StreamReturned("ok") EXCEPT !.decoded = Append(@, Note(Decoded))]
             ELSE Undecoded(Decoded)
    /\ net' = [net EXCEPT !.toClient = Tail(@)]
    /\ UNCHANGED <<mode, clock, now, spc, sessions, fs, last, tcp>>

\* do_upload: the Upload request for a local file of `size` bytes
StreamUpload(name, size) ==
    /\ cl.pc = "idle"
    /\ cl.ops < MaxOps
    /\ cl' = [Begin("upload", ReqUpload(Rel(<<>>), Rel(<<name>>), size))
                 EXCEPT !.size = size, !.src = name]
    /\ net' = Write(ReqUpload(Rel(<<>>), Rel(<<name>>), size))
    /\ UNCHANGED <<mode, clock, now, spc, sessions, fs, last, tcp>>

\* (mutant) the file is sent whatever the server answered
upload_goes_ahead_always(resp) == TRUE

\* match resp { Response::Ok => io::copy ... }
upload_goes_ahead(resp) == resp.type = "Ok"

\* do_upload: the response to Upload, then io::copy of the file; cut: the
\* client is gone after all but the last byte
StreamUploadAck(cut) ==
    /\ cl.pc = "upload"
    /\ net.toClient # <<>>
    /\ cut => Decoded.k = "msg" /\ upload_goes_ahead(Decoded.body) /\ cl.size > 0
    /\ IF Decoded.k # "msg"
       THEN /\ cl' = Undecoded(Decoded)
            /\ net' = [net EXCEPT !.toClient = Tail(@)]
       ELSE IF upload_goes_ahead(Decoded.body)
       THEN LET k == IF cut THEN cl.size - 1 ELSE cl.size
                data == IF k = 0 THEN <<>> ELSE <<Bytes(Original(k))>>
            IN  /\ cl' = [cl EXCEPT !.pc = IF cut THEN "gone" ELSE "idle",
                                    !.result = IF cut THEN "gone" ELSE "ok",
                                    !.uploaded = IF cut \/ cl.src # "u" THEN @ ELSE cl.size,
                                    !.decoded = Append(@, Note(Decoded))]
                /\ net' = [toServer |-> net.toServer \o data
                                          \o (IF cut THEN <<Eof>> ELSE <<>>),
                           toClient |-> Tail(net.toClient)]
       ELSE /\ cl' = [StreamReturned("err") EXCEPT !.decoded = Append(@, Note(Decoded))]
            /\ net' = [net EXCEPT !.toClient = Tail(@)]
    /\ UNCHANGED <<mode, clock, now, spc, sessions, fs, last, tcp>>

\* do_download: the Download request
StreamDownload(src) ==
    /\ cl.pc = "idle"
    /\ cl.ops < MaxOps
    /\ cl' = [Begin("download", ReqDownload(Rel(<<src>>))) EXCEPT !.src = src]
    /\ net' = Write(ReqDownload(Rel(<<src>>)))
    /\ UNCHANGED <<mode, clock, now, spc, sessions, fs, last, tcp>>

\* do_download: the response to Download, and File::create (lok: it succeeded)
StreamDownloadMeta(lok) ==
    /\ cl.pc = "download"
    /\ net.toClient # <<>>
    /\ cl' = IF Decoded.k # "msg" THEN Undecoded(Decoded)
             ELSE IF Decoded.body.type = "FileMetadata" /\ lok
             THEN [cl EXCEPT !.size = Decoded.body.size,
                             !.remaining = Decoded.body.size,
                             !.local = <<>>,
                             !.pc = IF Decoded.body.size > 0 THEN "receive" ELSE "idle",
                             !.result = IF Decoded.body.size > 0 THEN "none" ELSE "ok",
                             !.decoded = Append(@, Note(Decoded))]
             ELSE [StreamReturned("err") EXCEPT !.decoded = Append(@, Note(Decoded))]
    /\ net' = [net EXCEPT !.toClient = Tail(@)]
    /\ UNCHANGED <<mode, clock, now, spc, sessions, fs, last, tcp>>

\* the bytes a read of at most `most` bytes may return from a run of `avail`
ReadSizes(most, avail) ==
    {Min(most, avail)} \cup {n \in {Min(most, avail) - 1} : n > 0}

\* the stream after n bytes of the run at its head have been read
Consumed(stream, n) ==
    IF n = DataLen(Head(stream).data) THEN Tail(stream)
    ELSE <<Bytes(Slice(Head(stream).data, n, DataLen(Head(stream).data) - n))>>
             \o Tail(stream)

\* do_download: one turn of `while remaining > 0`
StreamDownloadRead(n) ==
    /\ cl.pc = "receive"
    /\ net.toClient # <<>>
    /\ IF Decoded.k = "raw"
       THEN /\ n \in ReadSizes(Min(TCP_BUF, cl.remaining), DataLen(Decoded.data))
            /\ cl' = [cl EXCEPT !.local = Concat(@, Slice(Decoded.data, 0, n)),
                                !.remaining = @ - n,
                                !.pc = IF cl.remaining = n THEN "idle" ELSE "receive",
                                !.result = IF cl.remaining = n THEN "ok" ELSE "none"]
            /\ net' = [net EXCEPT !.toClient = Consumed(@, n)]
       ELSE /\ n = 0
            /\ cl' = [cl EXCEPT !.pc = IF Decoded.k = "eof" THEN "gone" ELSE "desync",
                                !.result = IF Decoded.k = "eof" THEN "eof" ELSE "desync"]
            /\ net' = [net EXCEPT !.toClient = Tail(@)]
    /\ UNCHANGED <<mode, clock, now, spc, sessions, fs, last, tcp>>

\* main leaves its loop: the client's end of the connection is closed
StreamQuit ==
    /\ cl.pc = "idle"
    /\ cl' = [cl EXCEPT !.pc = "gone"]
    /\ net' = [net EXCEPT !.toServer = Append(@, Eof)]
    /\ UNCHANGED <<mode, clock, now, spc, sessions, fs, last, tcp>>

\* what handle_client wrote for request n, and the end of the stream when it
\* has returned
RECURSIVE Framed(_, _)
Framed(sent, n) ==
    IF sent = <<>> THEN <<>>
    ELSE (IF Head(sent).type = "Raw"
          THEN IF Head(sent).data = <<>> THEN <<>> ELSE <<Bytes(Head(sent).data)>>
          ELSE <<Msg(Head(sent), n)>>) \o Framed(Tail(sent), n)
Closing(pc) == IF pc \in {"read", "upload"} THEN <<>> ELSE <<Eof>>

\* handle_client: read_request and the arm of the match it selects
StreamServe(rok, dlen) ==
    /\ tcp.pc = "read"
    /\ net.toServer # <<>>
    /\ LET item == Head(net.toServer)
       IN  /\ CASE item.k = "eof" -> TcpClose
                [] item.k = "raw" ->
                      /\ mode = "tcp"
                      /\ tcp' = [tcp EXCEPT !.pc = "desync", !.req = Garbage, !.sent = <<>>]
                      /\ fs' = fs
                      /\ TcpOnly
                [] item.k = "msg" /\ item.body.type = "Upload" -> TcpUpload(item.body, TRUE)
                [] item.k = "msg" /\ item.body.type = "Download" ->
                      TcpDownload(item.body, TRUE, rok, dlen)
                [] OTHER -> TcpFs(item.body, TRUE)
           /\ net' = [toServer |-> Tail(net.toServer),
                      toClient |-> net.toClient
                                     \o Framed(tcp'.sent, IF item.k = "msg" THEN item.n ELSE 0)
                                     \o Closing(tcp'.pc)]
    /\ cl' = cl

\* handle_client: one turn of the byte loop of an upload
StreamServeRead(n, wok) ==
    /\ tcp.pc = "upload"
    /\ net.toServer # <<>>
    /\ LET item == Head(net.toServer)
           spans == /\ item.k = "raw"
                    /\ DataLen(item.data) < to_read(tcp.remaining)
                    /\ Len(net.toServer) > 1
                    /\ net.toServer[2].k = "msg"
       IN  IF item.k = "raw" /\ ~(spans /\ n = 0)
           THEN /\ n \in ReadSizes(to_read(tcp.remaining), DataLen(item.data))
                /\ TcpUploadRead(Slice(item.data, 0, n), wok)
                /\ net' = [toServer |-> Consumed(net.toServer, n),
                           toClient |-> net.toClient \o Closing(tcp'.pc)]
           ELSE IF item.k = "eof"
           THEN /\ n = 0
                /\ TcpUploadRead(<<>>, wok)
                /\ net' = [toServer |-> Tail(net.toServer),
                           toClient |-> net.toClient \o Closing(tcp'.pc)]
           ELSE \* the read takes bytes of the message that follows as file data
                /\ n = 0
                /\ mode = "tcp"
                /\ tcp' = [tcp EXCEPT !.pc = "desync"]
                /\ fs' = fs
                /\ TcpOnly
                /\ net' = [toServer |-> Tail(net.toServer),
                           toClient |-> net.toClient \o <<Eof>>]
    /\ cl' = cl

\* what the next read of either side may return: 0 stands for the end of the
\* stream, or for a read that is not of a run of file bytes
ReadChoices(stream, most) ==
    IF stream # <<>> /\ Head(stream).k = "raw"
    THEN ReadSizes(most, DataLen(Head(stream).data)) \cup {0}
    ELSE {0}

\* the sizes of the files transferred, around the size of the buffers
StreamSizes == {k * TCP_BUF + d : k \in 0..MaxFileChunks, d \in {0, 1, TCP_BUF - 1}}

\* one client is connected; root holds the directory "a" and the file "f"
InitStream ==
    /\ mode = "tcp"
    /\ clock = 0
    /\ now = 0
    /\ spc = "top"
    /\ sessions = [c \in {} |-> NewSession(0)]
    /\ last = [from |-> "none", req |-> NoRequest, sent |-> <<>>, at |-> 0]
    /\ tcp = TcpStep("read", Root, 0, <<>>, NoRequest, <<>>)
    /\ cl = StreamClientIdle
    /\ net = [toServer |-> <<>>, toClient |-> <<>>]
    /\ fs = [dirs |-> {<<>>, Root, Root \o <<"a">>},
             files |-> [x \in {Root \o <<"f">>} |-> Original(TCP_BUF + 1)]]

NextStream ==
    \/ StreamRequest(ReqDir)
    \/ StreamResponse
    \/ \E name \in {"u", "a"}, size \in StreamSizes : StreamUpload(name, size)
    \/ \E cut \in BOOLEAN : StreamUploadAck(cut)
    \/ \E src \in {"u", "f", "a"} : StreamDownload(src)
    \/ \E lok \in BOOLEAN : StreamDownloadMeta(lok)
    \/ \E n \in ReadChoices(net.toClient, Min(TCP_BUF, cl.remaining)) : StreamDownloadRead(n)
    \/ StreamQuit
    \/ \E rok \in BOOLEAN, dlen \in DirLens : StreamServe(rok, dlen)
    \/ \E n \in ReadChoices(net.toServer, to_read(tcp.remaining)), wok \in BOOLEAN :
          StreamServeRead(n, wok)

SpecStream == InitStream /\ [][NextStream]_vars

----------------------------------------------------------------------------
\* the file a Download of the stream server is about
DownloadTarget == Join(tcp.cwd, tcp.req.src_path)

(* C15: streaming upload: after the server's Ok the client writes exactly  *)
(* size raw bytes, the server consumes exactly size bytes and writes them  *)
(* to the destination file, and what it decodes next is the client's next  *)
(* Request: no file byte is taken for a message, no message byte for file  *)
(* data.                                                                    *)
C15_UploadFraming ==
    [][/\ (/\ cl.pc = "upload"
           /\ cl'.result = "ok"
           /\ net.toClient # <<>>
           /\ Decoded.k = "msg"
           /\ Decoded.body.type = "Ok")
            => net'.toServer =
                  net.toServer \o (IF cl.size = 0 THEN <<>> ELSE <<Bytes(Original(cl.size))>>)
       /\ tcp'.pc # "desync"
       /\ tcp'.pc = "upload"
            => DataLen(fs'.files[tcp'.file]) = tcp'.req.size - tcp'.remaining
       /\ (tcp.pc = "upload" /\ tcp'.pc = "read")
            => /\ fs'.files[tcp.file] = Original(tcp.req.size)
               /\ net'.toServer # <<>> => Head(net'.toServer).k # "raw"
       /\ (TcpHandled /\ tcp'.req.type = "Upload" /\ tcp'.sent = <<RespOk>>
              /\ tcp'.req.size = 0)
            => fs'.files[tcp'.file] = <<>>]_vars

\* an upload larger than the buffer is complete, and the next request waits
\* in the stream
C15_Witness ==
    /\ tcp.pc = "read"
    /\ tcp.req.type = "Upload"
    /\ tcp.req.size = TCP_BUF + 1
    /\ tcp.sent = <<RespOk>>
    /\ tcp.file \in DOMAIN fs.files
    /\ fs.files[tcp.file] = Original(TCP_BUF + 1)
    /\ net.toServer # <<>>
    /\ Head(net.toServer).k = "msg"

(* C16: streaming download: when the server can open the file it sends     *)
(* FileMetadata{name, size} and then exactly size raw bytes, the file's    *)
(* contents; when it cannot, it sends Error and no raw bytes; either way   *)
(* it is then ready to answer the next request.                             *)
C16_DownloadFraming ==
    (tcp.req.type = "Download" /\ tcp.sent # <<>>)
    => /\ tcp.pc = "read"
       /\ IF Exists(DownloadTarget, fs)
          THEN /\ Len(tcp.sent) = 2
               /\ tcp.sent[1].type = "FileMetadata"
               /\ tcp.sent[2].type = "Raw"
               /\ DataLen(tcp.sent[2].data) = tcp.sent[1].size
               /\ IsFile(DownloadTarget, fs)
               /\ tcp.sent[2].data = fs.files[Resolve(DownloadTarget, fs).path]
          ELSE /\ Len(tcp.sent) = 1
               /\ tcp.sent[1].type = "Error"

(* C17: when the stream server cannot create the destination of an Upload  *)
(* it replies Error and reads no raw bytes; the client sends no raw bytes  *)
(* after that Error; the connection stays usable.                           *)
C17_UploadRejected ==
    [][/\ (TcpHandled /\ tcp'.req.type = "Upload" /\ tcp'.sent[1].type = "Error")
            => /\ tcp'.pc = "read"
               /\ net'.toServer = Tail(net.toServer)
       /\ (/\ cl.pc = "upload"
           /\ cl' # cl
           /\ net.toClient # <<>>
           /\ Decoded.k = "msg"
           /\ Decoded.body.type = "Error")
            => /\ net'.toServer = net.toServer
               /\ cl'.pc = "idle"
               /\ cl'.result = "err"
       /\ tcp'.pc # "desync"]_vars

\* an upload was refused, and the request after it answered
C17_Witness ==
    /\ cl.reqs = <<"Upload", "Dir">>
    /\ cl.decoded = <<[n |-> 1, type |-> "Error"], [n |-> 2, type |-> "DirList"]>>

(* C18: when the connection closes before the declared size bytes have     *)
(* been delivered, the receiver (the server in an upload, the client in a  *)
(* download) fails with an unexpected end of stream, and a transfer is     *)
(* reported complete only with all its bytes.                               *)
C18_EarlyCloseFails ==
    [][/\ (/\ tcp.pc = "upload"
           /\ tcp' # tcp
           /\ net.toServer # <<>>
           /\ Head(net.toServer).k = "eof")
            => tcp'.pc = "eof"
       /\ (/\ cl.pc = "receive"
           /\ cl' # cl
           /\ net.toClient # <<>>
           /\ Decoded.k = "eof")
            => cl'.result = "eof"
       /\ (cl'.op = "download" /\ cl'.result = "ok") => DataLen(cl'.local) = cl'.size
       /\ (tcp.pc = "upload" /\ tcp'.pc = "read") => tcp'.remaining = 0]_vars

\* the server met the end of the stream one byte short of a two-read upload
C18_Witness ==
    /\ tcp.pc = "eof"
    /\ tcp.req.size = TCP_BUF + 1
    /\ tcp.remaining = 1

(* C19: uploading an N-byte file and then downloading the same remote file *)
(* over the same connection yields a local file with the original bytes.   *)
C19_StreamRoundTrip ==
    (cl.op = "download" /\ cl.src = "u" /\ cl.result = "ok" /\ cl.uploaded >= 0)
    => cl.local = Original(cl.uploaded)

\* a file one byte larger than the buffer has made the round trip
C19_Witness ==
    /\ cl.op = "download"
    /\ cl.src = "u"
    /\ cl.result = "ok"
    /\ cl.uploaded = TCP_BUF + 1
    /\ cl.local = Original(TCP_BUF + 1)

(* C20: within one connection the k-th Response the client decodes is the  *)
(* server's response to the k-th Request the client sent, also after       *)
(* operations that failed on the client side.                               *)
C20_ResponsesInOrder ==
    \A k \in 1..Len(cl.decoded) :
        /\ cl.decoded[k].n = k
        /\ cl.decoded[k].type \notin {"raw", "eof"}

----------------------------------------------------------------------------
(* SpecShell: Dir, CdUp, Cd and Mkdir from a datagram client or over the   *)
(* stream connection, starting at an empty root                            *)

\* the root directory exists and is empty
InitShell ==
    /\ InitCommon
    /\ fs = [dirs |-> {<<>>, Root}, files |-> [x \in {} |-> <<>>]]

ShellNames == {Rel(<<"a">>), Rel(<<"b">>)}
ShellPaths == ShellNames \cup {Rel(<<"a", "b">>), Rel(<<UP>>)}

MkdirInBounds(cwd, n) == Len(Join(cwd, n)) < MaxCwdLen

ShellMkdir(c, n) == MkdirInBounds(CwdOf(sessions, c), n) /\ UdpMkdir(c, n)
ShellTcpMkdir(n, sok) == MkdirInBounds(tcp.cwd, n) /\ TcpMkdir(n, sok)

NextShell ==
    \/ UdpSweep
    \/ UdpRecvError
    \/ UdpDir("c1")
    \/ UdpCdUp("c1")
    \/ \E p \in ShellPaths : UdpCd("c1", p)
    \/ \E n \in ShellNames : ShellMkdir("c1", n)
    \/ \E sok \in BOOLEAN : TcpDir(sok)
    \/ \E sok \in BOOLEAN : TcpCdUp(sok)
    \/ \E p \in ShellPaths, sok \in BOOLEAN : TcpCd(p, sok)
    \/ \E n \in ShellNames, sok \in BOOLEAN : ShellTcpMkdir(n, sok)
    \/ TcpPeerCloses

SpecShell == InitShell /\ [][NextShell]_vars

\* what lies directly in directory d: its subdirectories and its files
Listing(d, f) ==
    {[name |-> q[Len(q)], is_dir |-> q \in f.dirs] :
        q \in {x \in f.dirs \cup DOMAIN f.files : x # <<>> /\ Parent(x) = d}}

\* the filesystem after Mkdir{a} at an empty root, and after Mkdir{b} in a
FsWithA == [dirs |-> {<<>>, Root, Root \o <<"a">>}, files |-> [x \in {} |-> <<>>]]
FsWithAB == [FsWithA EXCEPT !.dirs = @ \cup {Root \o <<"a", "b">>}]

\* a request of the given type, answered for a handler whose current
\* directory is cwd afterwards: by the datagram server for c1, or by the
\* stream server
Answered(type, cwd) ==
    \/ /\ mode = "udp"
       /\ last.from = "c1"
       /\ last.req.type = type
       /\ "c1" \in DOMAIN sessions
       /\ sessions["c1"].cwd = cwd
    \/ /\ mode = "tcp"
       /\ tcp.req.type = type
       /\ tcp.pc \in {"read", "failed"}
       /\ tcp.cwd = cwd

Answer == IF mode = "udp" THEN LastResp ELSE tcp.sent[1]

(* C21: from a fresh session at an empty root, Mkdir{a}, Cd{a}, Dir gives  *)
(* an empty DirList, and after a further Mkdir{b}, Dir gives exactly the   *)
(* entry {b, is_dir: true}.  In general an accepted Mkdir creates the      *)
(* named directory in the current directory and nothing else, and Dir      *)
(* lists exactly what lies in the current directory.                        *)
C21_MkdirCdDir ==
    [][/\ (fs' = FsWithA /\ Answered("Dir", Root \o <<"a">>)')
          => Answer' = RespDirList({})
       /\ (fs' = FsWithAB /\ Answered("Dir", Root \o <<"a">>)')
          => Answer' = RespDirList({[name |-> "b", is_dir |-> TRUE]})
       /\ \A c \in Clients :
            LET here == Denotes(CwdOf(sessions, c), fs)
                made == here \o last'.req.name.comps
            IN  /\ (/\ UdpHandled(c)
                    /\ last'.req.type = "Mkdir"
                    /\ last'.sent[1].resp = RespOk)
                   => /\ made \notin fs.dirs
                      /\ fs' = [fs EXCEPT !.dirs = @ \cup {made}]
                /\ (UdpHandled(c) /\ last'.req.type = "Dir")
                   => last'.sent[1].resp = RespDirList(Listing(here, fs))
       /\ LET here == Denotes(tcp.cwd, fs)
              made == here \o tcp'.req.name.comps
          IN  /\ (/\ TcpHandled
                  /\ tcp'.req.type = "Mkdir"
                  /\ tcp'.sent[1] = RespOk)
                 => /\ made \notin fs.dirs
                    /\ fs' = [fs EXCEPT !.dirs = @ \cup {made}]
              /\ (TcpHandled /\ tcp'.req.type = "Dir")
                 => tcp'.sent[1] = RespDirList(Listing(here, fs))]_vars

\* Dir has listed the one entry b in directory a, after Mkdir{a}, Cd{a},
\* Mkdir{b}
C21_Witness ==
    /\ fs = FsWithAB
    /\ Answered("Dir", Root \o <<"a">>)
    /\ Answer = RespDirList({[name |-> "b", is_dir |-> TRUE]})

----------------------------------------------------------------------------
(* C22: Copy{src, dst} whose source does not exist under the current        *)
(* directory is answered with Error and leaves the filesystem as it was:    *)
(* the destination is not created and no file is modified.                  *)
C22_CopyMissingSource ==
    [][/\ \A c \in Clients :
            (/\ UdpHandled(c)
             /\ last'.req.type = "Copy"
             /\ ~Exists(Join(CwdOf(sessions, c), last'.req.src), fs))
            => /\ last'.sent[1].resp.type = "Error"
               /\ fs' = fs
       /\ (/\ TcpHandled
           /\ tcp'.req.type = "Copy"
           /\ ~Exists(Join(tcp.cwd, tcp'.req.src), fs))
          => /\ tcp'.sent[1].type = "Error"
             /\ fs' = fs]_vars

\* Copy{f, g} was refused in directory a, which holds no f, and a holds no g
C22_Witness ==
    /\ mode = "udp"
    /\ last.req = ReqCopy(Rel(<<"f">>), Rel(<<"g">>))
    /\ LastResp.type = "Error"
    /\ "c1" \in DOMAIN sessions
    /\ sessions["c1"].cwd = Root \o <<"a">>
    /\ Root \o <<"a", "f">> \notin DOMAIN fs.files
    /\ Root \o <<"a", "g">> \notin DOMAIN fs.files

----------------------------------------------------------------------------
(* C23: the first decodable request of a client that has no session        *)
(* creates one at root with no upload_state and no download_state and is   *)
(* handled against it; a request of a client that has a session changes    *)
(* that session's current directory and transfer state only as the request *)
(* itself does, and leaves every other session as it was.                  *)
C23_SessionOnFirstRequest ==
    [][\A c \in Clients :
         (UdpHandled(c) /\ last'.req.type # "Garbage")
         => LET req == last'.req
                resp == last'.sent[1].resp
                after == sessions'[c]
            IN  /\ c \in DOMAIN sessions'
                /\ \A k \in DOMAIN sessions \ {c} :
                      k \in DOMAIN sessions' /\ sessions'[k] = sessions[k]
                /\ c \notin DOMAIN sessions
                   => /\ req.type = "Dir"
                         => Fresh(after) /\ resp = RespDirList(Listing(Root, fs))
                      /\ req.type = "Cd"
                         => /\ after.cwd = Root \o req.path.comps
                            /\ ~IsSome(after.upload_file)
                            /\ ~IsSome(after.download_file)
                      /\ req.type \in {"UploadChunk", "DownloadChunk"}
                         => Fresh(after) /\ resp.type = "Error"
                      /\ req.type = "Upload"
                         => /\ after.cwd = Root
                            /\ IsSome(after.upload_file)
                            /\ Get(after.upload_file).file = Root \o req.file_name.comps
                            /\ Get(after.upload_file).received_bytes = 0
                            /\ ~IsSome(after.download_file)
                      /\ req.type = "Download"
                         => /\ after.cwd = Root
                            /\ IsSome(after.download_file)
                            /\ Get(after.download_file).file = Root \o req.src_path.comps
                            /\ Get(after.download_file).pos = 0
                            /\ ~IsSome(after.upload_file)
                /\ c \in DOMAIN sessions
                   => /\ req.type \notin {"Cd", "CdUp"}
                         => after.cwd = sessions[c].cwd
                      /\ req.type \notin {"Upload", "UploadChunk"}
                         => after.upload_file = sessions[c].upload_file
                      /\ req.type \notin {"Download", "DownloadChunk"}
                         => after.download_file = sessions[c].download_file]_vars

\* c2's first request was answered in a new session, and c1's session kept
\* its directory and its open download across a Dir of its own
C23_Witness ==
    /\ DOMAIN sessions = Clients
    /\ Fresh(sessions["c2"])
    /\ last.from = "c1"
    /\ last.req.type = "Dir"
    /\ sessions["c1"].cwd = Root \o <<"a">>
    /\ IsSome(sessions["c1"].download_file)

----------------------------------------------------------------------------
(* C24: a decodable request sets the sender's last_activity to the time at *)
(* which the request was received, so that last_activity is never earlier  *)
(* than the arrival of the client's most recent request.                    *)
C24_LastActivityIsArrival ==
    \A c \in Clients :
        (/\ last.from = c
         /\ last.req.type \notin {"None", "Garbage"}
         /\ c \in DOMAIN sessions)
        => sessions[c].last_activity >= last.at

----------------------------------------------------------------------------
\* this step is the sweep at the top of the datagram server's loop
Swept == spc = "top" /\ spc' = "recv"

(* C25: a sweep at time now removes a session if and only if its           *)
(* last_activity is older than the threshold (now - last_activity > 300);  *)
(* a session idle for at most the threshold stays, with its fields as they *)
(* were.                                                                    *)
C25_SweepRemovesOlderThanLimit ==
    [][Swept
       => \A c \in DOMAIN sessions :
             IF now' - sessions[c].last_activity > IDLE_LIMIT
             THEN c \notin DOMAIN sessions'
             ELSE c \in DOMAIN sessions' /\ sessions'[c] = sessions[c]]_vars

----------------------------------------------------------------------------
(* SpecAccept: tcp_server main around handle_client; the first connection  *)
(* has been accepted, further clients may be waiting to be accepted        *)

\* handle_client has returned: the loop was left, or `?` returned an error
HandlerReturned == {"closed", "failed", "eof"}

\* (mutant) main stays in `for stream in listener.incoming()`
main_accepts_again == "accept"

\* `break; // single-client only`
main_after_client == "return"

\* main after handle_client returned: "Client disconnected", then the break;
\* were the loop to go on, the next connection would be served from root
TcpClientDone ==
    /\ mode = "tcp"
    /\ spc = "top"
    /\ tcp.pc \in HandlerReturned
    /\ IF main_after_client = "return"
       THEN spc' = "returned" /\ tcp' = tcp
       ELSE spc' = "top" /\ tcp' = TcpStep("read", Root, 0, <<>>, NoRequest, <<>>)
    /\ UNCHANGED <<mode, clock, now, sessions, fs, last, cl, net>>

InitAccept ==
    /\ InitCommon
    /\ mode = "tcp"
    /\ fs = [dirs |-> {<<>>, Root, Root \o <<"a">>},
             files |-> [x \in {Root \o <<"f">>} |-> Original(1)]]

NextAccept ==
    \/ \E sok \in BOOLEAN : TcpDir(sok)
    \/ \E sok \in BOOLEAN : TcpCdUp(sok)
    \/ \E sok \in BOOLEAN : TcpCd(Rel(<<"a">>), sok)
    \/ \E sok \in BOOLEAN : TcpMkdir(Rel(<<"b">>), sok)
    \/ \E sok \in BOOLEAN : TcpCopy(Rel(<<"f">>), Rel(<<"g">>), sok)
    \/ \E sz \in {0, TCP_BUF + 1}, sok \in BOOLEAN :
          TcpUploadTo(ReqUpload(Rel(<<>>), Rel(<<"u">>), sz), sok)
    \/ \E n \in TcpReadChoices, wok \in BOOLEAN : TcpUploadBytes(n, wok)
    \/ \E sp \in DownloadPaths, sok \in BOOLEAN, rok \in BOOLEAN, dlen \in DirLens :
          TcpDownloadOf(ReqDownload(sp), sok, rok, dlen)
    \/ TcpPeerCloses
    \/ TcpUndecodable
    \/ TcpClientDone

SpecAccept == InitAccept /\ [][NextAccept]_vars

(* C26: the stream server serves one accepted connection: a request is     *)
(* read only by the handler of that connection, when the request before it *)
(* has been dealt with, and once that connection has closed or failed the  *)
(* server returns; it never serves a second connection.                     *)
C26_SingleConnection ==
    [][/\ TcpHandled => (spc = "top" /\ tcp.pc = "read")
       /\ (mode = "tcp" /\ tcp.pc \in HandlerReturned)
          => /\ tcp' = tcp
             /\ fs' = fs
             /\ spc' = "returned"
       /\ spc = "returned" => spc' = "returned"]_vars

\* main has returned after a connection that was served and then closed
C26_Witness ==
    /\ spc = "returned"
    /\ tcp.pc = "closed"
    /\ tcp.cwd # Root
    /\ Root \o <<"a", "u">> \in DOMAIN fs.files

----------------------------------------------------------------------------
(* SpecCd: Cd with descending paths, while directories are being made; the *)
(* root holds the file f                                                    *)

\* "", "a", "b", "a/b", "f", "f/a"
DescendPaths == {Rel(<<>>), Rel(<<"a">>), Rel(<<"b">>), Rel(<<"a", "b">>),
                 Rel(<<"f">>), Rel(<<"f", "a">>)}

NextCd ==
    \/ UdpSweep
    \/ UdpRecvError
    \/ UdpCdUp("c1")
    \/ \E p \in DescendPaths : UdpCd("c1", p)
    \/ \E n \in ShellNames : ShellMkdir("c1", n)
    \/ \E sok \in BOOLEAN : TcpCdUp(sok)
    \/ \E p \in DescendPaths, sok \in BOOLEAN : TcpCd(p, sok)
    \/ \E n \in ShellNames, sok \in BOOLEAN : ShellTcpMkdir(n, sok)
    \/ TcpPeerCloses

SpecCd == Init /\ [][NextCd]_vars

\* p is relative and has no ".." component
Descending(p) == ~p.abs /\ \A i \in 1..Len(p.comps) : p.comps[i] # UP

(* C27: for a relative path p without "..", Cd{p} issued while the current *)
(* directory is root returns Ok and sets the current directory to root/p   *)
(* if root/p is an existing directory, and returns Error otherwise (the    *)
(* current directory then stays root).                                      *)
C27_CdDescending ==
    [][/\ \A c \in Clients :
            (/\ UdpHandled(c)
             /\ last'.req.type = "Cd"
             /\ CwdOf(sessions, c) = Root
             /\ Descending(last'.req.path))
            => IF Root \o last'.req.path.comps \in fs.dirs
               THEN /\ last'.sent[1].resp = RespOk
                    /\ sessions'[c].cwd = Root \o last'.req.path.comps
               ELSE /\ last'.sent[1].resp.type = "Error"
                    /\ sessions'[c].cwd = Root
       /\ (/\ TcpHandled
           /\ tcp'.req.type = "Cd"
           /\ tcp.cwd = Root
           /\ Descending(tcp'.req.path))
          => IF Root \o tcp'.req.path.comps \in fs.dirs
             THEN /\ tcp'.sent[1] = RespOk
                  /\ tcp'.cwd = Root \o tcp'.req.path.comps
             ELSE /\ tcp'.sent[1].type = "Error"
                  /\ tcp'.cwd = Root]_vars

\* Cd{a/b} from root was accepted, two levels down
C27_Witness ==
    /\ mode = "udp"
    /\ last.req = ReqCd(Rel(<<"a", "b">>))
    /\ LastResp = RespOk
    /\ sessions["c1"].cwd = Root \o <<"a", "b">>

----------------------------------------------------------------------------
(* SpecChunks: two datagram clients download the file f, some chunks long, *)
(* and upload into files of their own, with chunk ids of any kind           *)

\* f has MaxChunks full chunks and one byte more
LongFile == MaxChunks * CHUNK_SIZE + 1

InitChunks ==
    /\ InitCommon
    /\ mode = "udp"
    /\ fs = [dirs |-> {<<>>, Root}, files |-> [x \in {Root \o <<"f">>} |-> Original(LongFile)]]

\* in order, repeated, skipped and far-off chunk ids
AnyChunkIds == {0, 1, 7}

\* chunks of a full, a short and an empty payload
AnyChunkData == {<<Seg(0, CHUNK_SIZE)>>, <<Seg(0, CHUNK_SIZE - 1)>>, <<>>}

\* the name client c uploads to
UploadName(c) == Rel(<<"u", c>>)

\* the file of c's upload grows to MaxChunks chunks at most
ChunksInBounds(c, d) ==
    (c \in DOMAIN sessions /\ IsSome(sessions[c].upload_file))
        => DataLen(fs.files[Get(sessions[c].upload_file).file]) + DataLen(d)
              <= MaxChunks * CHUNK_SIZE

UdpUploadPiece(c, id, d, l, wok) ==
    /\ ChunksInBounds(c, d)
    /\ UdpHandle(c, ReqUploadChunk(id, d, l), wok, TRUE) /\ Quiet

NextChunks ==
    \/ UdpSweep
    \/ UdpRecvError
    \/ \E c \in Clients : UdpDownload(c, Rel(<<"f">>))
    \/ \E c \in Clients, id \in AnyChunkIds, rok \in BOOLEAN : UdpDownloadChunk(c, id, rok)
    \/ UdpUpload("c1", Rel(<<>>), UploadName("c1"), LongFile)
    \/ \E id \in AnyChunkIds, d \in AnyChunkData, l \in BOOLEAN, wok \in BOOLEAN :
          UdpUploadPiece("c1", id, d, l, wok)

SpecChunks == InitChunks /\ [][NextChunks]_vars

\* the bytes of a file of the given size at offsets [from, from + CHUNK_SIZE)
BytesAt(size, from) ==
    IF from >= size THEN <<>> ELSE <<Seg(from, Min(CHUNK_SIZE, size - from))>>

(* C28: between a successful Download and the clearing of download_state,  *)
(* the j-th DownloadChunk handled is answered with the file's bytes at     *)
(* offsets [(j-1)*8192, j*8192), whatever chunk_id it carries, and the     *)
(* FileChunk reply carries the chunk_id of the request.                     *)
C28_ChunkPositionIgnoresId ==
    [][\A c \in Clients :
         (/\ UdpHandled(c)
          /\ last'.req.type = "DownloadChunk"
          /\ c \in DOMAIN sessions
          /\ IsSome(sessions[c].download_file)
          /\ last'.sent[1].resp.type = "FileChunk")
         => LET j == Get(sessions[c].download_file).sent_chunks + 1
                chunk == last'.sent[1].resp
            IN  /\ chunk.data = BytesAt(LongFile, (j - 1) * CHUNK_SIZE)
                /\ chunk.chunk_id = last'.req.chunk_id]_vars

\* the second chunk of f went out for a request that asked for chunk 7
C28_Witness ==
    /\ last.req = ReqDownloadChunk(7)
    /\ LastResp.type = "FileChunk"
    /\ LastResp.chunk_id = 7
    /\ LastResp.data = <<Seg(CHUNK_SIZE, CHUNK_SIZE)>>

----------------------------------------------------------------------------
(* C29: an UploadChunk{chunk_id, data, is_last} handled while the session  *)
(* has an upload_state, and written, appends data to the destination file, *)
(* adds the length of data to received_bytes, is answered with ChunkAck of *)
(* the same chunk_id, and removes upload_state exactly when is_last is     *)
(* true; so received_bytes is always the length of what has been appended  *)
(* to the file since the Upload that created the state.                     *)
C29_UploadAccounting ==
    [][/\ \A c \in Clients :
            (/\ UdpHandled(c)
             /\ last'.req.type = "UploadChunk"
             /\ c \in DOMAIN sessions
             /\ IsSome(sessions[c].upload_file)
             /\ last'.sent[1].resp.type # "Error")
            => LET upload == Get(sessions[c].upload_file)
                   req == last'.req
               IN  /\ fs'.files[upload.file] = Concat(fs.files[upload.file], req.data)
                   /\ DataLen(fs'.files[upload.file])
                         = DataLen(fs.files[upload.file]) + DataLen(req.data)
                   /\ last'.sent[1].resp = RespChunkAck(req.chunk_id)
                   /\ IsSome(sessions'[c].upload_file) <=> ~req.is_last
                   /\ ~req.is_last
                      => sessions'[c].upload_file =
                            Some([upload EXCEPT !.received_bytes =
                                                   @ + DataLen(req.data)])
       /\ \A c \in DOMAIN sessions' :
             IsSome(sessions'[c].upload_file)
             => Get(sessions'[c].upload_file).received_bytes
                   = DataLen(fs'.files[Get(sessions'[c].upload_file).file])]_vars

\* two chunks have been written and acknowledged, and the upload is open
C29_Witness ==
    /\ last.req.type = "UploadChunk"
    /\ LastResp = RespChunkAck(7)
    /\ "c1" \in DOMAIN sessions
    /\ IsSome(sessions["c1"].upload_file)
    /\ Get(sessions["c1"].upload_file).received_bytes = 2 * CHUNK_SIZE - 1

----------------------------------------------------------------------------
(* SpecOwn: one datagram client's transfers with the clock running and     *)
(* with reads and writes that fail                                          *)

NextOwn ==
    \/ UdpSweep
    \/ UdpRecvError
    \/ Tick(IDLE_LIMIT)
    \/ UdpDir("c1")
    \/ UdpDownload("c1", Rel(<<"f">>))
    \/ \E id \in AnyChunkIds, rok \in BOOLEAN : UdpDownloadChunk("c1", id, rok)
    \/ UdpUpload("c1", Rel(<<>>), UploadName("c1"), LongFile)
    \/ \E id \in AnyChunkIds, d \in AnyChunkData, l \in BOOLEAN, wok \in BOOLEAN :
          UdpUploadPiece("c1", id, d, l, wok)

SpecOwn == InitChunks /\ [][NextOwn]_vars

\* this step handles a chunk of c's upload whose write fails
WriteFails(c) ==
    \E id \in AnyChunkIds, d \in AnyChunkData, l \in BOOLEAN :
        UdpUploadPiece(c, id, d, l, FALSE)

\* this step handles a chunk request of c's download whose read fails
ReadFails(c) == \E id \in AnyChunkIds : UdpDownloadChunk(c, id, FALSE)

(* C30: upload_state is removed when the last chunk is written and when a  *)
(* chunk write fails (the reply is then Error); download_state is removed  *)
(* when the last chunk is read and when a read fails (the reply is then    *)
(* Error); both go with the session when it is evicted, so that a chunk    *)
(* request after the eviction finds no transfer.                            *)
C30_TransferStateReleased ==
    [][\A c \in Clients :
         LET resp == last'.sent[1].resp
             open == c \in DOMAIN sessions
         IN  /\ (/\ UdpHandled(c)
                 /\ last'.req.type = "UploadChunk"
                 /\ open /\ IsSome(sessions[c].upload_file))
                => /\ WriteFails(c) => resp.type = "Error"
                   /\ (resp.type = "Error" \/ last'.req.is_last)
                      <=> ~IsSome(sessions'[c].upload_file)
             /\ (/\ UdpHandled(c)
                 /\ last'.req.type = "DownloadChunk"
                 /\ open /\ IsSome(sessions[c].download_file))
                => /\ ReadFails(c) => resp.type = "Error"
                   /\ (resp.type = "Error" \/ resp.is_last)
                      <=> ~IsSome(sessions'[c].download_file)
             /\ (/\ UdpHandled(c)
                 /\ last'.req.type \in {"UploadChunk", "DownloadChunk"}
                 /\ ~open)
                => /\ resp.type = "Error"
                   /\ ~IsSome(sessions'[c].upload_file)
                   /\ ~IsSome(sessions'[c].download_file)
             /\ (Swept /\ open /\ c \notin DOMAIN sessions')
                => sessions[c].last_activity + IDLE_LIMIT <= now']_vars

\* after an eviction, a new upload lost its state to a failed write while a
\* download stayed open
C30_Witness ==
    /\ clock > 0
    /\ last.req.type = "UploadChunk"
    /\ ~last.req.is_last
    /\ LastResp = RespError("Write error")
    /\ "c1" \in DOMAIN sessions
    /\ sessions["c1"].last_activity > 0
    /\ ~IsSome(sessions["c1"].upload_file)
    /\ IsSome(sessions["c1"].download_file)

----------------------------------------------------------------------------
(* C31: the upload and the download of one session do not touch each       *)
(* other: Download and DownloadChunk leave upload_state as it was, Upload  *)
(* and UploadChunk leave download_state as it was (a session can have both *)
(* at once).                                                                *)
C31_TransfersIndependent ==
    [][\A c \in Clients :
         LET before == SessionOf(sessions, c)
         IN  /\ (UdpHandled(c) /\ last'.req.type \in {"Download", "DownloadChunk"})
                => sessions'[c].upload_file = before.upload_file
             /\ (UdpHandled(c) /\ last'.req.type \in {"Upload", "UploadChunk"})
                => sessions'[c].download_file = before.download_file]_vars

\* a download was started in a session whose upload has a chunk written, and
\* both are open
C31_Witness ==
    /\ last.from = "c1"
    /\ last.req.type = "Download"
    /\ "c1" \in DOMAIN sessions
    /\ IsSome(sessions["c1"].upload_file)
    /\ Get(sessions["c1"].upload_file).received_bytes = CHUNK_SIZE
    /\ IsSome(sessions["c1"].download_file)

----------------------------------------------------------------------------
(* SpecIso: two datagram clients, each moving about, uploading (c1 in      *)
(* chunks) or downloading (c2) and sending datagrams that do not decode,   *)
(* with the clock running                                                   *)

NextIso ==
    \/ UdpSweep
    \/ UdpRecvError
    \/ Tick(IDLE_LIMIT)
    \/ \E c \in Clients : UdpCd(c, Rel(<<"a">>))
    \/ \E c \in Clients : UdpGarbage(c)
    \/ \E c \in Clients : UdpUpload(c, Rel(<<>>), UploadName(c), CHUNK_SIZE)
    \/ \E l \in BOOLEAN : UdpUploadChunk("c1", 0, <<>>, l, TRUE)
    \/ UdpDownload("c2", Rel(<<"f">>))
    \/ UdpDownloadChunk("c2", 0, TRUE)

SpecIso == InitTime /\ [][NextIso]_vars

(* C32: handling a datagram of client A, decodable or not, changes no      *)
(* field of the session of another client B; without a datagram of its own *)
(* B's session changes only by being removed in the sweep, and no session  *)
(* appears for B.                                                           *)
C32_SessionIsolation ==
    [][\A b \in Clients :
         /\ (b \in DOMAIN sessions /\ \E a \in Clients \ {b} : UdpHandled(a))
            => b \in DOMAIN sessions' /\ sessions'[b] = sessions[b]
         /\ (b \in DOMAIN sessions /\ ~UdpHandled(b))
            => \/ b \in DOMAIN sessions' /\ sessions'[b] = sessions[b]
               \/ Swept /\ b \notin DOMAIN sessions'
         /\ (b \notin DOMAIN sessions /\ ~UdpHandled(b))
            => b \notin DOMAIN sessions']_vars

\* c1 sent a datagram that did not decode while c2 was in directory a with
\* an upload and a download open
C32_Witness ==
    /\ last.from = "c1"
    /\ last.req = Garbage
    /\ "c2" \in DOMAIN sessions
    /\ sessions["c2"].cwd = Root \o <<"a">>
    /\ IsSome(sessions["c2"].upload_file)
    /\ IsSome(sessions["c2"].download_file)

----------------------------------------------------------------------------
(* C33: over a channel that loses, delays and duplicates nothing, when the *)
(* datagram client's do_upload has returned success for an N-byte file     *)
(* (every N, also 0 and the exact multiples of 8192), the server session   *)
(* has no upload_state any more.                                            *)
C33_UploadCompleteOnServer ==
    (/\ cl.op = "upload"
     /\ cl.pc = "idle"
     /\ cl.result = "ok"
     /\ net.toServer = <<>>
     /\ net.toClient = <<>>
     /\ Me \in DOMAIN sessions)
    => ~IsSome(sessions[Me].upload_file)

----------------------------------------------------------------------------
(* SpecTrip: the datagram client uploads a local file to "u" and, when     *)
(* that has succeeded, downloads "u"; the channel loses, delays and        *)
(* duplicates nothing (no receive times out)                                *)

Uploaded == Root \o <<"u">>

InitTrip ==
    /\ InitCommon
    /\ mode = "udp"
    /\ fs = [dirs |-> {<<>>, Root}, files |-> [x \in {} |-> <<>>]]

\* `upload <file>` as the first command
TripUpload(size) == cl.ops = 0 /\ UploadStart(size)

\* `download u` once the upload has returned Ok
TripDownload ==
    /\ cl.op = "upload"
    /\ cl.result = "ok"
    /\ DownloadStart(Rel(<<"u">>))

NextTrip ==
    \/ UdpSweep
    \/ \E wok \in BOOLEAN, rok \in BOOLEAN : UdpServe(wok, rok)
    \/ \E size \in ClientSizes : TripUpload(size)
    \/ UploadInit
    \/ UploadRead
    \/ UploadAck
    \/ TripDownload
    \/ \E lok \in BOOLEAN : DownloadMeta(lok)
    \/ DownloadChunkResp

SpecTrip == InitTrip /\ [][NextTrip]_vars

\* the operation of the given kind has returned Ok in the state reached
Succeeded(op) == cl'.op = op /\ cl'.pc = "idle" /\ cl'.result = "ok"

(* C34: over a channel that loses, delays and duplicates nothing, a        *)
(* chunked upload of an N-byte file followed by a chunked download of the  *)
(* same remote file by the same client yields a local file equal to the    *)
(* original (N = 0, below, at and above the chunk size, exact multiples):  *)
(* the upload that returned Ok has left the original's bytes in the remote *)
(* file, the remote file stays as it is from then on, and the download     *)
(* that returned Ok has written the remote file's bytes to the local file. *)
C34_ChunkedRoundTrip ==
    [][/\ Succeeded("upload")
          => /\ Uploaded \in DOMAIN fs'.files
             /\ fs'.files[Uploaded] = Original(cl'.size)
       /\ (cl.op = "upload" /\ cl.pc = "idle" /\ cl.result = "ok") \/ cl.op = "download"
          => fs' = fs
       /\ Succeeded("download")
          => /\ cl'.local = fs'.files[Uploaded]
             /\ cl'.total = DataLen(fs'.files[Uploaded])]_vars

\* two full chunks went up and came back, the original's 16384 bytes
C34_Witness ==
    /\ cl.op = "download"
    /\ cl.pc = "idle"
    /\ cl.result = "ok"
    /\ cl.local = Original(2 * CHUNK_SIZE)
    /\ fs.files[Uploaded] = Original(2 * CHUNK_SIZE)

----------------------------------------------------------------------------
\* this step is send_request returning the datagram socket.recv handed it
ClientReceives ==
    /\ cl.pc \in {"up_init", "up_ack", "dl_meta", "dl_chunk"}
    /\ Arrived
    /\ cl' # cl

(* C35: the Response that the datagram client's send_request returns for a *)
(* request r is the server's response to r itself, also after an earlier   *)
(* send_request ended in a receive timeout: the server answers every       *)
(* request once and in order, so when the response is taken r is the only  *)
(* request of the client not yet answered to it, and nothing older is      *)
(* ahead of r's response.                                                   *)
C35_ResponseIsForRequest ==
    [][ClientReceives => (net.toServer = <<>> /\ Len(net.toClient) = 1)]_vars

----------------------------------------------------------------------------
(* SpecLossy: one transfer of the datagram client over a channel that      *)
(* loses, duplicates and reorders datagrams in both directions              *)

\* a request is duplicated on its way to the server
NetDuplicateRequest ==
    /\ net.toServer # <<>>
    /\ Len(net.toServer) < MaxInFlight
    /\ net' = [net EXCEPT !.toServer = <<Head(@)>> \o @]
    /\ cl' = cl
    /\ ServerUnchanged

\* the request that would arrive next is lost
NetLoseRequest ==
    /\ net.toServer # <<>>
    /\ net' = [net EXCEPT !.toServer = Tail(@)]
    /\ cl' = cl
    /\ ServerUnchanged

\* the response that would arrive next is lost
NetLoseResponse ==
    /\ net.toClient # <<>>
    /\ net' = [net EXCEPT !.toClient = Tail(@)]
    /\ cl' = cl
    /\ ServerUnchanged

\* the first two datagrams of q, the other way round
Swapped(q) == <<q[2], q[1]>> \o SubSeq(q, 3, Len(q))

\* two requests overtake each other
NetReorderRequests ==
    /\ Len(net.toServer) >= 2
    /\ net.toServer[1] # net.toServer[2]
    /\ net' = [net EXCEPT !.toServer = Swapped(@)]
    /\ cl' = cl
    /\ ServerUnchanged

\* two responses overtake each other
NetReorderResponses ==
    /\ Len(net.toClient) >= 2
    /\ net.toClient[1] # net.toClient[2]
    /\ net' = [net EXCEPT !.toClient = Swapped(@)]
    /\ cl' = cl
    /\ ServerUnchanged

\* one byte, and one chunk and a byte
LossySizes == {1, CHUNK_SIZE + 1}

\* root holds the file "f", one chunk and a byte long
InitLossy ==
    /\ InitCommon
    /\ mode = "udp"
    /\ fs = [dirs |-> {<<>>, Root},
             files |-> [x \in {Root \o <<"f">>} |-> Original(CHUNK_SIZE + 1)]]

\* the server handles the next request while few responses are on their way
\* and the uploaded file has room for the chunk
LossyServe ==
    /\ Len(net.toClient) < MaxInFlight
    /\ net.toServer # <<>>
    /\ LET req == Head(net.toServer).req
       IN  (req.type = "UploadChunk" /\ Me \in DOMAIN sessions
                /\ IsSome(sessions[Me].upload_file))
           => DataLen(fs.files[Get(sessions[Me].upload_file).file]) + DataLen(req.data)
                 <= LongFile
    /\ UdpServe(TRUE, TRUE)

\* the client takes the response to a DownloadChunk, within MaxChunks + 1
\* chunks (a restarted server download can feed it first chunks for ever)
LossyChunkResp == cl.chunk_id <= MaxChunks /\ DownloadChunkResp

\* `download f` as the first command
LossyDownload == cl.ops = 0 /\ DownloadStart(Rel(<<"f">>))

NextLossy ==
    \/ UdpSweep
    \/ LossyServe
    \/ \E size \in LossySizes : TripUpload(size)
    \/ UploadInit
    \/ UploadRead
    \/ UploadAck
    \/ LossyDownload
    \/ DownloadMeta(TRUE)
    \/ LossyChunkResp
    \/ Timeout
    \/ NetDuplicate
    \/ NetDuplicateRequest
    \/ NetLoseRequest
    \/ NetLoseResponse
    \/ NetReorderRequests
    \/ NetReorderResponses

SpecLossy == InitLossy /\ [][NextLossy]_vars

(* C36: over a channel that may lose, duplicate and reorder datagrams in   *)
(* both directions, whenever the client's do_upload has returned success,  *)
(* the bytes the server has written to the destination file are exactly    *)
(* the bytes of the local file.                                             *)
C36_UploadIntegrity ==
    (cl.op = "upload" /\ cl.pc = "idle" /\ cl.result = "ok")
    => (Uploaded \in DOMAIN fs.files /\ fs.files[Uploaded] = Original(cl.size))

----------------------------------------------------------------------------
(* C37: over a channel that may lose, duplicate and reorder datagrams in   *)
(* both directions, whenever the client's do_download has returned         *)
(* success, the bytes written to the local file are exactly the bytes of   *)
(* the remote file.                                                         *)
C37_DownloadIntegrity ==
    (cl.op = "download" /\ cl.pc = "idle" /\ cl.result = "ok")
    => cl.local = fs.files[Root \o <<"f">>]

----------------------------------------------------------------------------
(* C38: a session that has just handled a request is not evicted by the    *)
(* sweep at the start of the next iteration of the loop: if the last       *)
(* datagram was a decodable request from c and less than 300 s have passed *)
(* since it arrived, the sweep keeps c's session with its cwd and its open *)
(* transfers, however long the server had waited before the request came.  *)
C38_HandledSessionSurvivesSweep ==
    [][(/\ Swept
        /\ last.from \in Clients
        /\ last.req.type \notin {"None", "Garbage"}
        /\ clock - last.at < IDLE_LIMIT)
       => (/\ last.from \in DOMAIN sessions'
           /\ sessions'[last.from] = sessions[last.from])]_vars

----------------------------------------------------------------------------
(* SpecFetch: the datagram client downloads the remote file "f" of N bytes *)
(* over a channel that loses, delays and duplicates nothing; reads on the  *)
(* server and the creation of the local file succeed.  The server's loop   *)
(* and the client both keep running, hence the weak fairness.              *)

NextFetch ==
    \/ UdpSweep
    \/ UdpServe(TRUE, TRUE)
    \/ LossyDownload
    \/ DownloadMeta(TRUE)
    \/ DownloadChunkResp

SpecFetch == InitClient /\ [][NextFetch]_vars /\ WF_vars(NextFetch)

\* do_download has returned Ok after floor(N / 8192) + 1 DownloadChunk
\* requests, each answered, with N bytes received and the server's
\* download_state cleared
FetchDone ==
    /\ cl.op = "download"
    /\ cl.pc = "idle"
    /\ cl.result = "ok"
    /\ cl.size = DataLen(fs.files[Root \o <<"f">>])
    /\ Len(cl.sent) = (cl.size \div CHUNK_SIZE) + 1
    /\ Len(cl.rcvd) = Len(cl.sent)
    /\ cl.total = cl.size
    /\ Me \in DOMAIN sessions
    /\ ~IsSome(sessions[Me].download_file)

============================================================================
